---- MODULE Spec2Model ----
(***************************************************************************)
(* Model of the credential resolution and token cache of the Google Ads   *)
(* MCP server, class DynamicOAuthClient of src/ads_mcp/oauth_client.py,    *)
(* of the tools of src/ads_mcp/tools/api.py, mutations.py and docs.py,    *)
(* and of the start of the server (server.py, scripts/generate_views.py).  *)
(*                                                                         *)
(* One DynamicOAuthClient (the module-level oauth_client) is shared by     *)
(* every request.  A request runs handler code without interruption        *)
(* except while it is blocked in the POST to the token endpoint            *)
(* (requests.post, line 71): there other requests run, the clock advances, *)
(* and the cache can change between the cache check of lines 42-47 and the *)
(* store of lines 86-90.                                                   *)
(*                                                                         *)
(* Spec serves requests concurrently: the two methods the tools call       *)
(* (_generate_access_token_from_refresh, get_access_token) and the cache   *)
(* maintenance calls.  SpecApi has every method of the class, the legacy   *)
(* fetch _get_token_from_external_api included, one call at a time;       *)
(* SpecUsed has the methods that have callers.  SpecGaql applies           *)
(* preprocess_gaql, format_value, create_keywords and                      *)
(* get_reporting_view_doc to inputs and execute_gaql to every answer of    *)
(* the Ads API.  SpecServer starts server processes one after another on   *)
(* the files the one before left, the fetches of update_views_yaml         *)
(* completing in any order or failing.  SpecTools runs the tools           *)
(* one after another, each call to its end, over every combination of      *)
(* headers, credentials and token-endpoint answers.  Tool calls do not     *)
(* write the history variable last, which follows the direct calls of the  *)
(* OAuth client's methods.                                                 *)
(***************************************************************************)
EXTENDS Integers, Sequences, FiniteSets, Bags, TLC

(* ------------------------------ bounds -------------------------------- *)
MaxInFlight == 2
NumTokens == 2
MaxTime == 1
MaxQueryParts == 3
MaxRows == 2
MaxBatches == 2
MaxErrors == 2
MaxKeywords == 2
MaxViews == 2

(* ------------------------- program constants -------------------------- *)
Buffer == 60
DefaultExpiresIn == 3600

(* Python's None, for values that are strings or None. *)
NONE == "<None>"

(* Python truthiness of an Optional[str]: None and "" are falsy. *)
Truthy(s) == s # NONE /\ s # ""

(* An Optional[number] is <<>> (None) or <<n>>; None and 0 are falsy. *)
TruthyNumber(t) == t # << >> /\ t[1] # 0

(* Refresh tokens a client can send.  Their first ten characters agree,   *)
(* as those of Google's refresh tokens often do.                          *)
TokenNames == <<"1//0gToken1", "1//0gToken2", "1//0gToken3", "1//0gToken4">>
RefreshTokens == {TokenNames[i] : i \in 1 .. NumTokens}

(* refresh_token[:10] *)
Prefix10(refresh_token) == "1//0gToken"

(* Access tokens the token endpoint issues, the legacy external API       *)
(* issues, and a client sends in X-OAuth-Access-Token.                    *)
AccessTokens == {"ya29.a", "ya29.b"}
ExternalTokens == {"ya29.ext"}
HeaderTokens == {"ya29.hdr"}

(* Values of hash(str): a signed integer fixed per process and string.    *)
HashValues == {-1, 1, 2}

(* The hash functions a process can have on the refresh tokens.  Which    *)
(* value the first token gets makes no difference to the others, so it is *)
(* fixed.                                                                 *)
HashFunctions == {h \in [RefreshTokens -> HashValues] : h[TokenNames[1]] = 1}

(* Lifetimes (expires_in, seconds) the token endpoint and the external    *)
(* API report in the model.                                               *)
TokenExpiresIns == {60, 61}
ExternalExpiresIns == {61, 121}

(* Environment read by __init__. *)
oauth_api_url == "https://oauth.example"
google_ads_account_id == "1234567890"

VARIABLES
    now,                \* time.time()
    hashOf,             \* hash() of this process, on the refresh tokens
    token_cache,        \* self.token_cache: key -> entry, on the keys present
    _access_token,      \* self._access_token
    _token_expires_at,  \* self._token_expires_at: <<>> or <<t>>
    inflight,           \* the calls blocked in the POST of line 71 (a bag)
    last,               \* history: the last call to return or to block
    written,            \* history: the exchange that stored the entry of a key
    _ADS_CLIENT,        \* api.py's _ADS_CLIENT: <<>> or <<client>>
    call,               \* history: the last tool invocation and its outcome
    disk,               \* the files under context/ that update_views_yaml keeps
    server              \* the server process: where main() is and what it did

(* The state of DynamicOAuthClient and its histories. *)
oauth == <<now, hashOf, token_cache, _access_token, _token_expires_at,
           inflight, last, written>>

(* The state of the start of the server (server.py, generate_views.py). *)
startup == <<disk, server>>

(* The state outside oauth_client.py: that of src/ads_mcp/tools/api.py    *)
(* and that of the start of the server.                                   *)
api == <<_ADS_CLIENT, call, startup>>

vars == <<now, hashOf, token_cache, _access_token, _token_expires_at,
          inflight, last, written, api>>

Abs(n) == IF n < 0 THEN -n ELSE n

(* f"refresh_token_{abs(hash(refresh_token))}" *)
_get_cache_key_for_refresh_token(refresh_token) ==
    <<"refresh_token_", Abs(hashOf[refresh_token])>>

(* A variant of the legacy key that is the key of a refresh token. *)
LegacyKeyShared == <<"refresh_token_", 1>>

(* f"google_ads_{self.google_ads_account_id}" *)
LegacyKey == <<"google_ads_", 0>>

NoResult == [at |-> "none", op |-> "none", refresh_token |-> NONE,
             v |-> NONE, posted |-> FALSE, replaced |-> << >>]

(* No tool has been invoked. *)
NoCall == [tool |-> "none"]

(* context/ as the package ships it: no .api-version, no fields.yaml and  *)
(* no view file written yet.                                              *)
NoFiles == [version |-> << >>, fields |-> << >>, views |-> << >>]

(* No server process: main() has not been entered. previous is how the    *)
(* update of the process before went.                                     *)
NotRunning ==
    [pc |-> "stopped", environ |-> << >>, tasks |-> << >>, order |-> << >>,
     wrote |-> {}, calls |-> << >>, update |-> "none", previous |-> "none"]

(* A function without the key k (del d[k]). *)
Del(f, k) == [x \in DOMAIN f \ {k} |-> f[x]]

(* d[k] = e *)
Put(f, k, e) == [x \in DOMAIN f \cup {k} |-> IF x = k THEN e ELSE f[x]]

EmptyDict == [x \in {} |-> NONE]

(* ---------------- what the outside world can answer ------------------- *)

(* expires_in of a response body: not there, or a number of seconds. *)
Opt(S) == {<< >>} \cup {<<n>> : n \in S}

(* The ways lines 49-102 can go: the credentials file is missing (56),    *)
(* client_id or client_secret is missing (66), an exception before the    *)
(* POST (open, yaml) or in it or after it (requests.post, response.json,  *)
(* the arithmetic on expires_in), a status other than 200, and a 200      *)
(* whose body holds access_token (or not) and expires_in (or not).        *)
TokenResponses ==
    {[kind |-> k, access_token |-> NONE, expires_in |-> << >>] :
        k \in {"file_missing", "client_missing", "config_error",
               "post_error", "status_not_200"}}
    \cup
    {[kind |-> "status_200", access_token |-> a, expires_in |-> e] :
        a \in AccessTokens, e \in Opt(TokenExpiresIns)}
    \cup
    {[kind |-> "status_200", access_token |-> a, expires_in |-> << >>] :
        a \in {NONE, ""}}

(* The ways lines 121-167 can go. *)
ExternalResponses ==
    {[kind |-> k, access_token |-> NONE, expires_in |-> << >>] :
        k \in {"request_exception", "error", "status_not_200"}}
    \cup
    {[kind |-> "status_200", access_token |-> a, expires_in |-> e] :
        a \in ExternalTokens \cup {NONE}, e \in Opt(ExternalExpiresIns)}

(* flask's request: unbound (falsy) outside a request context, otherwise  *)
(* its headers; headers.get gives None for a header that is not there.    *)
Requests ==
    {[present |-> FALSE, access |-> NONE, refresh |-> NONE]}
    \cup
    {[present |-> TRUE, access |-> a, refresh |-> r] :
        a \in HeaderTokens \cup {NONE, ""}, r \in RefreshTokens \cup {NONE, ""}}

(* Whether the call reached requests.post (line 71). *)
Posted(resp) == resp.kind \in {"post_error", "status_not_200", "status_200"}

(* token_data.get('expires_in', 3600) *)
ExpiresIn(resp) ==
    IF resp.expires_in = << >> THEN DefaultExpiresIn ELSE resp.expires_in[1]

(* response.status_code == 200 and access_token is truthy (lines 78, 83) *)
Succeeds(resp) == resp.kind = "status_200" /\ Truthy(resp.access_token)

(* ------------------------ the cache of lines 41-92 -------------------- *)

(* A variant of line 45 that also takes an entry expiring now as fresh. *)
CacheFreshGE(cached_data) == cached_data.expires_at >= now

(* cached_data['expires_at'] > time.time()   (line 45) *)
CacheFresh(cached_data) == cached_data.expires_at > now

(* A variant of lines 42-47 that stops using an entry a buffer before it  *)
(* expires.                                                               *)
CachedTokenBuffered(d, refresh_token) ==
    LET cache_key == _get_cache_key_for_refresh_token(refresh_token)
    IN  IF cache_key \in DOMAIN d /\ d[cache_key].expires_at - Buffer > now
        THEN d[cache_key].access_token
        ELSE NONE

(* Lines 42-47 on the cache d: the cached access token, or None when the  *)
(* call goes on to the exchange.                                          *)
CachedToken(d, refresh_token) ==
    LET cache_key == _get_cache_key_for_refresh_token(refresh_token)
    IN  IF cache_key \in DOMAIN d /\ CacheFresh(d[cache_key])
        THEN d[cache_key].access_token
        ELSE NONE

(* A variant of lines 86-90 that, over an entry already there, renews the *)
(* access token and keeps the old expiry.                                 *)
StoredEntryMixed(refresh_token, resp) ==
    LET cache_key == _get_cache_key_for_refresh_token(refresh_token)
    IN  [access_token |-> resp.access_token,
         expires_at |-> IF cache_key \in DOMAIN token_cache
                        THEN token_cache[cache_key].expires_at
                        ELSE now + ExpiresIn(resp) - Buffer,
         refresh_token_hash |-> Prefix10(refresh_token)]

(* A variant of lines 86-90 without the 60 second buffer. *)
StoredEntryNoBuffer(refresh_token, resp) ==
    [access_token |-> resp.access_token,
     expires_at |-> now + ExpiresIn(resp),
     refresh_token_hash |-> Prefix10(refresh_token)]

(* The entry of lines 86-90. *)
StoredEntry(refresh_token, resp) ==
    [access_token |-> resp.access_token,
     expires_at |-> now + ExpiresIn(resp) - Buffer,
     refresh_token_hash |-> Prefix10(refresh_token)]

(* A variant of lines 196-199 without the buffer at the lookup. *)
FallbackTokenNoBuffer ==
    IF /\ Truthy(_access_token)
       /\ TruthyNumber(_token_expires_at)
       /\ now < _token_expires_at[1]
    THEN _access_token
    ELSE NONE

(* Lines 196-199: the process-wide token, or None. *)
FallbackToken ==
    IF /\ Truthy(_access_token)
       /\ TruthyNumber(_token_expires_at)
       /\ now < _token_expires_at[1] - Buffer
    THEN _access_token
    ELSE NONE

(* ------------------------------- calls -------------------------------- *)

(* A call blocked in the POST: the method the request called, and the     *)
(* refresh token it exchanges.                                            *)
Frame(op, refresh_token) == [op |-> op, refresh_token |-> refresh_token]

(* The call op returns tok, leaving the calls b in their POST.            *)
(* refresh_token_if_needed returns `token is not None` (line 226).        *)
Return(b, op, refresh_token, tok, posted, replaced) ==
    /\ inflight' = b
    /\ last' = [at |-> "return", op |-> op, refresh_token |-> refresh_token,
                v |-> IF op = "refresh_token_if_needed" THEN tok # NONE ELSE tok,
                posted |-> posted, replaced |-> replaced]

(* The call blocks in the POST of line 71 for refresh_token. *)
Enter(op, refresh_token) ==
    /\ inflight' = inflight (+) SetToBag({Frame(op, refresh_token)})
    /\ last' = [at |-> "post", op |-> op, refresh_token |-> refresh_token,
                v |-> NONE, posted |-> FALSE, replaced |-> << >>]

(* A variant of lines 189-203 that returns new_token whatever it is. *)
AfterGenerateNoFallback(b, op, refresh_token, new_token, posted, replaced) ==
    Return(b, op, refresh_token, new_token, posted, replaced)

(* What get_access_token does with new_token (lines 189-203); a direct    *)
(* call of _generate_access_token_from_refresh returns it as it is.       *)
AfterGenerate(b, op, refresh_token, new_token, posted, replaced) ==
    IF op = "_generate_access_token_from_refresh" \/ Truthy(new_token)
    THEN Return(b, op, refresh_token, new_token, posted, replaced)
    ELSE Return(b, op, refresh_token, FallbackToken, posted, replaced)

(* Lines 42-48 on the cache d: return the cached token or go on to the    *)
(* exchange.                                                              *)
CheckCache(op, d, refresh_token) ==
    IF CachedToken(d, refresh_token) # NONE
    THEN AfterGenerate(inflight, op, refresh_token,
                       CachedToken(d, refresh_token), FALSE, << >>)
    ELSE Enter(op, refresh_token)

(* A variant of lines 176-203 that looks at the refresh-token header      *)
(* before the access-token header.                                        *)
ResolveRefreshFirst(op, d, req) ==
    IF req.present /\ Truthy(req.refresh)
    THEN CheckCache(op, d, req.refresh)
    ELSE IF req.present /\ Truthy(req.access)
    THEN Return(inflight, op, NONE, req.access, FALSE, << >>)
    ELSE Return(inflight, op, NONE, FallbackToken, FALSE, << >>)

(* Lines 176-203 of get_access_token on the cache d. *)
Resolve(op, d, req) ==
    IF req.present /\ Truthy(req.access)
    THEN Return(inflight, op, NONE, req.access, FALSE, << >>)
    ELSE IF req.present /\ Truthy(req.refresh)
    THEN CheckCache(op, d, req.refresh)
    ELSE Return(inflight, op, NONE, FallbackToken, FALSE, << >>)

(* A request can start: the server has a worker free. *)
Free == BagCardinality(inflight) < MaxInFlight

(* No call is in its POST. *)
Quiet == inflight = EmptyBag

Init ==
    /\ now = 0
    /\ hashOf \in HashFunctions
    /\ token_cache = EmptyDict
    /\ _access_token = NONE
    /\ _token_expires_at = << >>
    /\ inflight = EmptyBag
    /\ last = NoResult
    /\ written = EmptyDict
    /\ _ADS_CLIENT = << >>
    /\ call = NoCall
    /\ disk = NoFiles
    /\ server = NotRunning

(* The clock advances. *)
Tick ==
    /\ now < MaxTime
    /\ now' = now + 1
    /\ UNCHANGED <<api, hashOf, token_cache, _access_token, _token_expires_at,
                   inflight, last, written>>

(* _generate_access_token_from_refresh(refresh_token), called directly    *)
(* (as the tools do), up to the POST.                                     *)
_generate_access_token_from_refresh(refresh_token) ==
    /\ Free
    /\ CheckCache("_generate_access_token_from_refresh", token_cache,
                  refresh_token)
    /\ UNCHANGED <<api, now, hashOf, token_cache, _access_token,
                   _token_expires_at, written>>

(* The entry a store for refresh_token replaces, <<e>>, when e is fresh   *)
(* and was stored by an exchange of the same refresh token (the call      *)
(* missed the cache, so e was stored while it was blocked); <<>> if not.  *)
Replaced(refresh_token) ==
    LET cache_key == _get_cache_key_for_refresh_token(refresh_token)
    IN  IF /\ cache_key \in DOMAIN token_cache
           /\ token_cache[cache_key].expires_at > now
           /\ written[cache_key].refresh_token = refresh_token
        THEN <<token_cache[cache_key]>>
        ELSE << >>

(* A variant of lines 49-102 that drops the entry when the exchange fails. *)
CacheAfterEvict(refresh_token, resp) ==
    IF Succeeds(resp)
    THEN Put(token_cache, _get_cache_key_for_refresh_token(refresh_token),
             StoredEntry(refresh_token, resp))
    ELSE Del(token_cache, _get_cache_key_for_refresh_token(refresh_token))

(* self.token_cache once lines 49-102 have run on the answer resp: the    *)
(* entry is stored on success (86-90), and nothing is touched otherwise.  *)
CacheAfter(refresh_token, resp) ==
    IF Succeeds(resp)
    THEN Put(token_cache, _get_cache_key_for_refresh_token(refresh_token),
             StoredEntry(refresh_token, resp))
    ELSE token_cache

(* A variant of exchange that also installs the token it obtained as the *)
(* process-wide token.                                                    *)
exchange_installing(f, resp) ==
    /\ BagIn(f, inflight)
    /\ LET refresh_token == f.refresh_token
           cache_key == _get_cache_key_for_refresh_token(refresh_token)
       IN  /\ token_cache' = CacheAfter(refresh_token, resp)
           /\ written' = IF Succeeds(resp)
                         THEN Put(written, cache_key,
                                  [refresh_token |-> refresh_token,
                                   expires_in |-> ExpiresIn(resp)])
                         ELSE written
           /\ IF Succeeds(resp)
              THEN /\ _access_token' = resp.access_token
                   /\ _token_expires_at' = <<now + ExpiresIn(resp)>>
              ELSE UNCHANGED <<_access_token, _token_expires_at>>
           /\ AfterGenerate(inflight (-) SetToBag({f}), f.op, refresh_token,
                  IF Succeeds(resp) THEN resp.access_token ELSE NONE,
                  Posted(resp),
                  IF Succeeds(resp) THEN Replaced(refresh_token) ELSE << >>)
    /\ UNCHANGED <<api, now, hashOf>>

(* The rest of _generate_access_token_from_refresh (lines 49-102) for the *)
(* blocked call f once the outside world has answered resp, and the rest  *)
(* of its caller.                                                         *)
exchange(f, resp) ==
    /\ BagIn(f, inflight)
    /\ LET refresh_token == f.refresh_token
           cache_key == _get_cache_key_for_refresh_token(refresh_token)
       IN  /\ token_cache' = CacheAfter(refresh_token, resp)
           /\ written' = IF Succeeds(resp)
                         THEN Put(written, cache_key,
                                  [refresh_token |-> refresh_token,
                                   expires_in |-> ExpiresIn(resp)])
                         ELSE written
           /\ AfterGenerate(inflight (-) SetToBag({f}), f.op, refresh_token,
                  IF Succeeds(resp) THEN resp.access_token ELSE NONE,
                  Posted(resp),
                  IF Succeeds(resp) THEN Replaced(refresh_token) ELSE << >>)
    /\ UNCHANGED <<api, now, hashOf, _access_token, _token_expires_at>>

(* get_access_token() under the request req, up to the POST if it makes   *)
(* one.                                                                   *)
get_access_token(req) ==
    /\ Free
    /\ Resolve("get_access_token", token_cache, req)
    /\ UNCHANGED <<api, now, hashOf, token_cache, _access_token,
                   _token_expires_at, written>>

(* refresh_token_if_needed() under the request req (lines 220-226). *)
refresh_token_if_needed(req) ==
    /\ Free
    /\ LET d == IF LegacyKey \in DOMAIN token_cache
                THEN Del(token_cache, LegacyKey) ELSE token_cache
       IN  /\ token_cache' = d
           /\ Resolve("refresh_token_if_needed", d, req)
    /\ UNCHANGED <<api, now, hashOf, _access_token, _token_expires_at, written>>

(* A variant of clear_cache_for_refresh_token that empties the cache. *)
clear_cache_all(refresh_token) ==
    LET cache_key == _get_cache_key_for_refresh_token(refresh_token)
    IN  /\ Free
        /\ token_cache' = IF cache_key \in DOMAIN token_cache
                          THEN EmptyDict ELSE token_cache
        /\ written' = IF cache_key \in DOMAIN token_cache
                      THEN EmptyDict ELSE written
        /\ UNCHANGED <<api, now, hashOf, _access_token, _token_expires_at,
                       inflight, last>>

(* clear_cache_for_refresh_token(refresh_token) (lines 209-211). *)
clear_cache_for_refresh_token(refresh_token) ==
    LET cache_key == _get_cache_key_for_refresh_token(refresh_token)
    IN  /\ Free
        /\ token_cache' = IF cache_key \in DOMAIN token_cache
                          THEN Del(token_cache, cache_key) ELSE token_cache
        /\ written' = Del(written, cache_key)
        /\ UNCHANGED <<api, now, hashOf, _access_token, _token_expires_at,
                       inflight, last>>

(* The dict of get_cache_stats (lines 232-250); the list under            *)
(* cached_refresh_tokens is given by key.                                 *)
CacheStats ==
    LET keys == {k \in DOMAIN token_cache : k[1] = "refresh_token_"}
        expired(k) == token_cache[k].expires_at <= now
        left(k) == token_cache[k].expires_at - now
    IN  [total_cached_tokens |-> Cardinality(DOMAIN token_cache),
         cached_refresh_tokens |-> [k \in keys |->
              [hash |-> token_cache[k].refresh_token_hash,
               expires_in |-> IF left(k) > 0 THEN left(k) ELSE 0,
               expired |-> expired(k)]],
         expired_tokens |-> Cardinality({k \in keys : expired(k)})]

(* get_cache_stats() returns CacheStats and changes nothing. *)
get_cache_stats ==
    /\ Free
    /\ CacheStats.total_cached_tokens = Cardinality(DOMAIN token_cache)
    /\ UNCHANGED vars

(* _get_token_from_external_api() once the external API has answered resp *)
(* (lines 108-167). Nothing stores under the legacy key, so the cache     *)
(* check of lines 115-119 finds nothing.                                  *)
_get_token_from_external_api(resp) ==
    /\ Free
    /\ LET op == "_get_token_from_external_api"
           ok == /\ oauth_api_url # NONE
                 /\ google_ads_account_id # NONE
                 /\ LegacyKey \notin DOMAIN token_cache
                 /\ resp.kind = "status_200"
                 /\ Truthy(resp.access_token)
       IN  /\ IF ok
              THEN /\ _access_token' = resp.access_token
                   /\ _token_expires_at' = <<now + ExpiresIn(resp) - Buffer>>
              ELSE UNCHANGED <<_access_token, _token_expires_at>>
           /\ Return(inflight, op, NONE,
                     IF ok THEN resp.access_token ELSE NONE,
                     resp.kind # "request_exception", << >>)
    /\ UNCHANGED <<api, now, hashOf, token_cache, written>>

(* The calls that can be blocked in a POST. *)
Frames ==
    {Frame(op, r) : op \in {"_generate_access_token_from_refresh",
                            "get_access_token", "refresh_token_if_needed"},
                    r \in RefreshTokens}

Next ==
    \/ Tick
    \/ \E refresh_token \in RefreshTokens :
          _generate_access_token_from_refresh(refresh_token)
    \/ \E f \in Frames, resp \in TokenResponses : exchange(f, resp)
    \/ \E req \in Requests : get_access_token(req)
    \/ \E refresh_token \in RefreshTokens :
          clear_cache_for_refresh_token(refresh_token)
    \/ get_cache_stats

Spec == Init /\ [][Next]_vars

NextApi ==
    \/ Tick
    \/ \E refresh_token \in RefreshTokens :
          Quiet /\ _generate_access_token_from_refresh(refresh_token)
    \/ \E f \in Frames, resp \in TokenResponses : exchange(f, resp)
    \/ \E req \in Requests : Quiet /\ get_access_token(req)
    \/ \E req \in Requests : Quiet /\ refresh_token_if_needed(req)
    \/ \E refresh_token \in RefreshTokens :
          Quiet /\ clear_cache_for_refresh_token(refresh_token)
    \/ Quiet /\ get_cache_stats
    \/ \E resp \in ExternalResponses :
          Quiet /\ _get_token_from_external_api(resp)

SpecApi == Init /\ [][NextApi]_vars

(* The methods the rest of the code invokes, one call at a time:          *)
(* _get_token_from_external_api has no caller.                            *)
NextUsed ==
    \/ Tick
    \/ \E refresh_token \in RefreshTokens :
          Quiet /\ _generate_access_token_from_refresh(refresh_token)
    \/ \E f \in Frames, resp \in TokenResponses : exchange(f, resp)
    \/ \E req \in Requests : Quiet /\ get_access_token(req)
    \/ \E req \in Requests : Quiet /\ refresh_token_if_needed(req)
    \/ \E refresh_token \in RefreshTokens :
          Quiet /\ clear_cache_for_refresh_token(refresh_token)
    \/ Quiet /\ get_cache_stats

SpecUsed == Init /\ [][NextUsed]_vars

(* ====================================================================== *)
(*                 src/ads_mcp/tools/api.py: GAQL queries                 *)
(* ====================================================================== *)

(* m in s, for Python strings. *)
Contains(s, m) ==
    \E i \in 1 .. (Len(s) - Len(m) + 1) : SubSeq(s, i, i + Len(m) - 1) = m

(* The pieces queries are made of in the model, and the queries: up to    *)
(* MaxQueryParts pieces, one after another.                               *)
QueryParts ==
    {"SELECT campaign.id FROM campaign", " PARAMETERS", " parameters",
     " include_drafts=true", " omit_unselected_resource_names=true",
     " omit_unselected_resource_names=false"}

RECURSIVE QueriesOf(_)
QueriesOf(n) ==
    IF n = 0 THEN {""}
    ELSE QueriesOf(n - 1) \cup {q \o part : q \in QueriesOf(n - 1),
                                            part \in QueryParts}

Queries == QueriesOf(MaxQueryParts)

(* A variant of preprocess_gaql that appends without looking for the      *)
(* directive.                                                             *)
preprocess_gaql_always(query) ==
    IF Contains(query, "PARAMETERS") /\ Contains(query, "include_drafts")
    THEN query \o " omit_unselected_resource_names=true"
    ELSE query \o " PARAMETERS omit_unselected_resource_names=true"

(* A variant of preprocess_gaql that appends the PARAMETERS clause        *)
(* whatever the query holds.                                              *)
preprocess_gaql_clause(query) ==
    IF ~Contains(query, "omit_unselected_resource_names")
    THEN query \o " PARAMETERS omit_unselected_resource_names=true"
    ELSE query

(* preprocess_gaql(query) (lines 161-165). *)
preprocess_gaql(query) ==
    IF ~Contains(query, "omit_unselected_resource_names")
    THEN IF Contains(query, "PARAMETERS") /\ Contains(query, "include_drafts")
         THEN query \o " omit_unselected_resource_names=true"
         ELSE query \o " PARAMETERS omit_unselected_resource_names=true"
    ELSE query

(* preprocess_gaql is applied to query; depth counts the applications to *)
(* the query q, so that depth 2 is preprocess_gaql(preprocess_gaql(q)).   *)
Preprocess(q, query, depth) ==
    /\ call' = [tool |-> "preprocess_gaql", q |-> q, query |-> query,
                depth |-> depth, ret |-> preprocess_gaql(query)]
    /\ UNCHANGED <<now, hashOf, token_cache, _access_token,
                   _token_expires_at, inflight, last, written, _ADS_CLIENT,
                   startup>>

(* preprocess_gaql(q) for a query q. *)
PreprocessQuery == \E query \in Queries : Preprocess(query, query, 1)

(* preprocess_gaql on what preprocess_gaql returned. *)
PreprocessAgain ==
    /\ call.tool = "preprocess_gaql"
    /\ call.depth = 1
    /\ Preprocess(call.q, call.ret, 2)

(* ====================================================================== *)
(*        src/ads_mcp/tools/api.py: formatting the rows of a response     *)
(* ====================================================================== *)

(* Values a response row holds.  A proto.Message with what                *)
(* proto.Message.to_dict does on it (its mapping, or an exception); a     *)
(* proto.Enum with its number and what value.name does (the name, an      *)
(* AttributeError, or another exception); and values of other types, an   *)
(* int n and a str s.                                                     *)
Values ==
    {[type |-> "Message", of |-> "Campaign", to_dict |-> d] :
        d \in {"dict", "raises"}}
    \cup
    {[type |-> "Enum", number |-> 2, name |-> n] :
        n \in {"ENABLED", "AttributeError", "raises"}}
    \cup
    {[type |-> "int", n |-> 7], [type |-> "str", s |-> "Sales"]}

(* A variant of format_value that gives the number of every enum. *)
format_value_number(value) ==
    IF value.type = "Message"
    THEN IF value.to_dict = "raises" THEN value
         ELSE [type |-> "dict", of |-> value.of]
    ELSE IF value.type = "Enum"
    THEN IF value.name = "raises" THEN value
         ELSE [type |-> "int", n |-> value.number]
    ELSE value

(* format_value(value) (lines 170-185): the except clause of line 182     *)
(* returns the value itself when the conversion raises.                   *)
format_value(value) ==
    IF value.type = "Message"
    THEN IF value.to_dict = "raises" THEN value
         ELSE [type |-> "dict", of |-> value.of]
    ELSE IF value.type = "Enum"
    THEN IF value.name = "raises" THEN value
         ELSE IF value.name = "AttributeError"
         THEN [type |-> "int", n |-> value.number]
         ELSE [type |-> "str", s |-> value.name]
    ELSE value

(* format_value is applied to value. *)
Format(value) ==
    /\ call' = [tool |-> "format_value", value |-> value,
                ret |-> format_value(value)]
    /\ UNCHANGED <<now, hashOf, token_cache, _access_token,
                   _token_expires_at, inflight, last, written, _ADS_CLIENT,
                   startup>>

(* s.replace(old, new): every occurrence of old, from the left, without   *)
(* overlap.                                                               *)
RECURSIVE Replace(_, _, _)
Replace(str, old, new) ==
    IF Len(str) < Len(old) THEN str
    ELSE IF SubSeq(str, 1, Len(old)) = old
    THEN new \o Replace(SubSeq(str, Len(old) + 1, Len(str)), old, new)
    ELSE SubSeq(str, 1, 1) \o Replace(SubSeq(str, 2, Len(str)), old, new)

(* field_path.replace('.type', '.type_')   (line 241) *)
PythonFieldPath(field_path) == Replace(field_path, ".type", ".type_")

(* Field paths of a field mask, the masks, and the rows of the model: a   *)
(* row holds a value under each attribute path it has, and                *)
(* get_nested_attr raises AttributeError for a path it has not.           *)
FieldMasks ==
    {<<"campaign.id", "ad_group.type">>,
     <<"campaign.name", "campaign.id", "campaign.name">>}

RowObjects ==
    {("campaign.id" :> [type |-> "int", n |-> 7]
        @@ "campaign.name" :> [type |-> "str", s |-> "Sales"]
        @@ "ad_group.type_" :> [type |-> "Enum", number |-> 2,
                                name |-> "ENABLED"]),
     ("campaign.id" :> [type |-> "int", n |-> 9]
        @@ "campaign.name" :> [type |-> "str", s |-> "Sales"])}

(* Sequences over S of length at most n. *)
SeqUpTo(S, n) == UNION {[1 .. k -> S] : k \in 0 .. n}

Batches ==
    {[paths |-> m, results |-> rs] :
        m \in FieldMasks, rs \in SeqUpTo(RowObjects, MaxRows)}

(* The set of elements of a sequence. *)
Range(seq) == {seq[i] : i \in DOMAIN seq}

(* A variant of lines 236-252 that stores under the path it looked up. *)
RowDataPythonKeys(row, paths) ==
    IF \E i \in DOMAIN paths : PythonFieldPath(paths[i]) \notin DOMAIN row
    THEN <<"raise">>
    ELSE <<"ok", [python_field_path \in
                     {PythonFieldPath(field_path) : field_path \in Range(paths)}
                     |-> format_value(row[python_field_path])]>>

(* Lines 236-252 on one row: <<"ok", row_data>>, or <<"raise">> when      *)
(* get_nested_attr fails on a path of the mask.                           *)
RowData(row, paths) ==
    IF \E i \in DOMAIN paths : PythonFieldPath(paths[i]) \notin DOMAIN row
    THEN <<"raise">>
    ELSE <<"ok", [field_path \in Range(paths) |->
                     format_value(row[PythonFieldPath(field_path)])]>>

(* A variant of lines 231-253 that leaves out a row whose path fails. *)
RECURSIVE OutputSkipping(_, _, _)
OutputSkipping(batches, b, r) ==
    IF b > Len(batches) THEN <<"ok", << >>>>
    ELSE IF r > Len(batches[b].results)
    THEN OutputSkipping(batches, b + 1, 1)
    ELSE LET row_data == RowData(batches[b].results[r], batches[b].paths)
             rest == OutputSkipping(batches, b, r + 1)
         IN  IF row_data[1] = "raise" THEN rest
             ELSE <<"ok", <<row_data[2]>> \o rest[2]>>

(* Lines 230-253 from row r of batch b on: <<"ok", output>>, or           *)
(* <<"raise">> when a row fails.                                          *)
RECURSIVE Output(_, _, _)
Output(batches, b, r) ==
    IF b > Len(batches) THEN <<"ok", << >>>>
    ELSE IF r > Len(batches[b].results) THEN Output(batches, b + 1, 1)
    ELSE LET row_data == RowData(batches[b].results[r], batches[b].paths)
             rest == Output(batches, b, r + 1)
         IN  IF row_data[1] = "raise" \/ rest[1] = "raise"
             THEN <<"raise">>
             ELSE <<"ok", <<row_data[2]>> \o rest[2]>>

(* ====================================================================== *)
(*          src/ads_mcp/tools/api.py: the errors of a failed call         *)
(* ====================================================================== *)

(* The errors of a GoogleAdsException's failure.  location, error_code    *)
(* and trigger are <<>> when reading the attribute raises AttributeError  *)
(* (for trigger: or hasattr is false), and <<text>> with the attribute's  *)
(* text otherwise; an empty trigger is falsy.                             *)
AdsErrors ==
    {[message |-> m, location |-> l, error_code |-> c, trigger |-> t] :
        m \in {"Unrecognized field.", "No access."},
        l \in {<< >>, <<"field_path_elements { }">>},
        c \in {<< >>, <<"query_error: UNRECOGNIZED_FIELD">>},
        t \in {<< >>, <<"">>, <<"campaign.idd">>}}

(* Lines 268-281 for one error. *)
ErrorBlock(error) ==
    <<"Error: " \o error.message>>
    \o (IF error.location = << >> THEN << >>
        ELSE <<"  Location: " \o error.location[1]>>)
    \o (IF error.error_code = << >> THEN << >>
        ELSE <<"  Error Code: " \o error.error_code[1]>>)
    \o (IF error.trigger = << >> \/ error.trigger = <<"">> THEN << >>
        ELSE <<"  Trigger: " \o error.trigger[1]>>)

(* A variant of lines 267-281 that puts the message lines first. *)
RECURSIVE ErrorDetailsMessagesFirst(_)
ErrorDetailsMessagesFirst(errors) ==
    IF errors = << >> THEN << >>
    ELSE <<ErrorBlock(errors[1])[1]>>
         \o ErrorDetailsMessagesFirst(Tail(errors))
         \o Tail(ErrorBlock(errors[1]))

(* error_details of lines 266-281. *)
RECURSIVE ErrorDetails(_)
ErrorDetails(errors) ==
    IF errors = << >> THEN << >>
    ELSE ErrorBlock(errors[1]) \o ErrorDetails(Tail(errors))

(* "\n".join(lines) *)
RECURSIVE JoinLines(_)
JoinLines(lines) ==
    IF lines = << >> THEN ""
    ELSE IF Len(lines) = 1 THEN lines[1]
    ELSE lines[1] \o "\n" \o JoinLines(Tail(lines))

(* full_error of line 283; str(e.failure.errors) of no errors is "[]". *)
FullError(errors) ==
    IF ErrorDetails(errors) # << >> THEN JoinLines(ErrorDetails(errors))
    ELSE "[]"

(* What the Ads API answers to search_stream: batches, or a               *)
(* GoogleAdsException with its errors.                                    *)
Answers ==
    {[kind |-> "batches", batches |-> bs] : bs \in SeqUpTo(Batches, MaxBatches)}
    \cup
    {[kind |-> "GoogleAdsException", errors |-> es] :
        es \in SeqUpTo(AdsErrors, MaxErrors)}

(* ====================================================================== *)
(*        src/ads_mcp/tools/api.py: credentials and the Ads client        *)
(* ====================================================================== *)

(* An exception raised: its type and its message. *)
Raise(type, message) == <<[type |-> type, message |-> message]>>

(* The headers of the MCP request a tool runs under (get_http_headers):   *)
(* a header that is not there is None.                                    *)
ToolHeaders ==
    {[refresh |-> r, access |-> a] :
        r \in {NONE, "", TokenNames[1]}, a \in HeaderTokens \cup {NONE}}

(* What a tool call finds around it: whether the credentials file is      *)
(* there, the token of FastMCP's get_access_token() (None when it has no  *)
(* AccessToken), and whether flask's request is bound.                    *)
Envs ==
    [file : BOOLEAN, fastmcp : {NONE, "ya29.mcp"}, bound : BOOLEAN]

(* flask's request as the OAuth client sees it in a tool call. *)
FlaskRequest(headers, env) ==
    IF env.bound
    THEN [present |-> TRUE, access |-> headers.access,
          refresh |-> headers.refresh]
    ELSE [present |-> FALSE, access |-> NONE, refresh |-> NONE]

(* The answers of the token endpoint drawn for tool calls. *)
ToolTokenResponses ==
    {resp \in TokenResponses :
        \/ resp.kind \in {"file_missing", "status_not_200"}
        \/ /\ Succeeds(resp)
           /\ resp.access_token = "ya29.a"
           /\ resp.expires_in = << >>}

(* The credentials file is one file: the exchange misses it exactly when  *)
(* get_ads_client does.                                                   *)
SameFile(env, resp) == (resp.kind = "file_missing") <=> ~env.file

(* get_refresh_token_from_headers() (lines 39-54). *)
get_refresh_token_from_headers(headers) ==
    IF Truthy(headers.refresh) THEN headers.refresh ELSE NONE

(* _generate_access_token_from_refresh(refresh_token) run to its end on   *)
(* the cache d and its ghost w, the endpoint answering resp if asked      *)
(* (oauth_client.py lines 41-102): the token returned and the cache left. *)
GenerateOn(d, w, refresh_token, resp) ==
    LET cache_key == _get_cache_key_for_refresh_token(refresh_token)
    IN  IF CachedToken(d, refresh_token) # NONE
        THEN [token |-> CachedToken(d, refresh_token), cache |-> d,
              written |-> w]
        ELSE IF Succeeds(resp)
        THEN [token |-> resp.access_token,
              cache |-> Put(d, cache_key, StoredEntry(refresh_token, resp)),
              written |-> Put(w, cache_key,
                              [refresh_token |-> refresh_token,
                               expires_in |-> ExpiresIn(resp)])]
        ELSE [token |-> NONE, cache |-> d, written |-> w]

(* oauth_client.get_access_token() run to its end under the request req   *)
(* (oauth_client.py lines 176-203).                                       *)
AccessTokenOn(d, w, req, resp) ==
    IF req.present /\ Truthy(req.access)
    THEN [token |-> req.access, cache |-> d, written |-> w]
    ELSE IF req.present /\ Truthy(req.refresh)
    THEN LET g == GenerateOn(d, w, req.refresh, resp)
         IN  IF Truthy(g.token) THEN g
             ELSE [token |-> FallbackToken, cache |-> g.cache,
                   written |-> g.written]
    ELSE [token |-> FallbackToken, cache |-> d, written |-> w]

(* A GoogleAdsClient: what it authenticates with, its login_customer_id,  *)
(* and whether it is the process-wide _ADS_CLIENT.                        *)
Client(method, token, login_customer_id, shared) ==
    [method |-> method, token |-> token,
     login_customer_id |-> login_customer_id, shared |-> shared]

(* GoogleAdsClient.load_from_storage(credentials_path) (line 127). *)
YamlClient == Client("yaml", NONE, NONE, TRUE)

(* What get_ads_client was given and what it found: the token of         *)
(* oauth_client.get_access_token() (line 91), "unread" when it did not    *)
(* ask for it, and the token FastMCP holds (lines 105-107).               *)
AuthInputs(access_token, d, w, req, env, resp) ==
    [argument |-> access_token, file |-> env.file,
     dynamic |-> IF Truthy(access_token) /\ env.file THEN "unread"
                 ELSE AccessTokenOn(d, w, req, resp).token,
     fastmcp |-> env.fastmcp]

(* A variant of get_ads_client that tries the FastMCP token before the    *)
(* dynamic OAuth token.                                                   *)
get_ads_client_fastmcp_first(access_token, d, w, req, env, resp) ==
    LET dyn == AccessTokenOn(d, w, req, resp)
        kept == [cache |-> d, written |-> w, ads |-> _ADS_CLIENT]
        used == [cache |-> dyn.cache, written |-> dyn.written,
                 ads |-> _ADS_CLIENT]
    IN  IF Truthy(access_token) /\ env.file
        THEN [raised |-> << >>,
              client |-> <<Client("argument", access_token, NONE, FALSE)>>]
             @@ kept
        ELSE IF ~env.file
        THEN [raised |-> Raise("FileNotFoundError",
                  "Google Ads credentials YAML file is not found. Check [GOOGLE_ADS_CREDENTIALS] config."),
              client |-> << >>] @@ used
        ELSE IF Truthy(env.fastmcp)
        THEN [raised |-> << >>,
              client |-> <<Client("fastmcp", env.fastmcp, NONE, FALSE)>>]
             @@ used
        ELSE IF Truthy(dyn.token)
        THEN [raised |-> << >>,
              client |-> <<Client("dynamic", dyn.token, NONE, FALSE)>>]
             @@ used
        ELSE [raised |-> << >>,
              client |-> IF _ADS_CLIENT = << >> THEN <<YamlClient>>
                         ELSE _ADS_CLIENT,
              cache |-> dyn.cache, written |-> dyn.written,
              ads |-> IF _ADS_CLIENT = << >> THEN <<YamlClient>>
                      ELSE _ADS_CLIENT]

(* A variant of get_ads_client that builds the client of Method 1 without *)
(* looking for the credentials file.                                      *)
get_ads_client_unchecked(access_token, d, w, req, env, resp) ==
    LET dyn == AccessTokenOn(d, w, req, resp)
        kept == [cache |-> d, written |-> w, ads |-> _ADS_CLIENT]
        used == [cache |-> dyn.cache, written |-> dyn.written,
                 ads |-> _ADS_CLIENT]
    IN  IF Truthy(access_token)
        THEN [raised |-> << >>,
              client |-> <<Client("argument", access_token, NONE, FALSE)>>]
             @@ kept
        ELSE IF Truthy(dyn.token) /\ env.file
        THEN [raised |-> << >>,
              client |-> <<Client("dynamic", dyn.token, NONE, FALSE)>>]
             @@ used
        ELSE IF ~env.file
        THEN [raised |-> Raise("FileNotFoundError",
                  "Google Ads credentials YAML file is not found. Check [GOOGLE_ADS_CREDENTIALS] config."),
              client |-> << >>] @@ used
        ELSE IF Truthy(env.fastmcp)
        THEN [raised |-> << >>,
              client |-> <<Client("fastmcp", env.fastmcp, NONE, FALSE)>>]
             @@ used
        ELSE [raised |-> << >>,
              client |-> IF _ADS_CLIENT = << >> THEN <<YamlClient>>
                         ELSE _ADS_CLIENT,
              cache |-> dyn.cache, written |-> dyn.written,
              ads |-> IF _ADS_CLIENT = << >> THEN <<YamlClient>>
                      ELSE _ADS_CLIENT]

(* get_ads_client(access_token) (lines 57-129) on the cache d: the        *)
(* exception raised or the client returned, and the cache and the         *)
(* process-wide client left.                                              *)
get_ads_client(access_token, d, w, req, env, resp) ==
    LET dyn == AccessTokenOn(d, w, req, resp)
        kept == [cache |-> d, written |-> w, ads |-> _ADS_CLIENT]
        used == [cache |-> dyn.cache, written |-> dyn.written,
                 ads |-> _ADS_CLIENT]
    IN  IF Truthy(access_token) /\ env.file
        THEN [raised |-> << >>,
              client |-> <<Client("argument", access_token, NONE, FALSE)>>]
             @@ kept
        ELSE IF Truthy(dyn.token) /\ env.file
        THEN [raised |-> << >>,
              client |-> <<Client("dynamic", dyn.token, NONE, FALSE)>>]
             @@ used
        ELSE IF ~env.file
        THEN [raised |-> Raise("FileNotFoundError",
                  "Google Ads credentials YAML file is not found. Check [GOOGLE_ADS_CREDENTIALS] config."),
              client |-> << >>] @@ used
        ELSE IF Truthy(env.fastmcp)
        THEN [raised |-> << >>,
              client |-> <<Client("fastmcp", env.fastmcp, NONE, FALSE)>>]
             @@ used
        ELSE [raised |-> << >>,
              client |-> IF _ADS_CLIENT = << >> THEN <<YamlClient>>
                         ELSE _ADS_CLIENT,
              cache |-> dyn.cache, written |-> dyn.written,
              ads |-> IF _ADS_CLIENT = << >> THEN <<YamlClient>>
                      ELSE _ADS_CLIENT]

(* A variant of lines 142-149 that takes the access-token header when it  *)
(* is there.                                                              *)
ToolAccessTokenHeaderFirst(headers, resp) ==
    LET refresh_token == get_refresh_token_from_headers(headers)
        g == GenerateOn(token_cache, written, refresh_token, resp)
        kept == [cache |-> token_cache, written |-> written]
    IN  IF Truthy(headers.access)
        THEN [raised |-> << >>, token |-> headers.access] @@ kept
        ELSE IF ~Truthy(refresh_token)
        THEN [raised |-> Raise("Exception",
                  "Missing X-OAuth-Refresh-Token header for authentication"),
              token |-> NONE] @@ kept
        ELSE IF ~Truthy(g.token)
        THEN [raised |-> Raise("Exception",
                  "Failed to generate access token from refresh token"),
              token |-> NONE, cache |-> g.cache, written |-> g.written]
        ELSE [raised |-> << >>] @@ g

(* A variant of lines 142-149 that goes on without a token when the       *)
(* exchange gives none.                                                   *)
ToolAccessTokenUnchecked(headers, resp) ==
    LET refresh_token == get_refresh_token_from_headers(headers)
        g == GenerateOn(token_cache, written, refresh_token, resp)
    IN  IF ~Truthy(refresh_token)
        THEN [raised |-> Raise("Exception",
                  "Missing X-OAuth-Refresh-Token header for authentication"),
              token |-> NONE, cache |-> token_cache, written |-> written]
        ELSE [raised |-> << >>] @@ g

(* Lines 142-149 and 212-219: the token a query tool authenticates with,  *)
(* or the exception it raises.                                            *)
ToolAccessToken(headers, resp) ==
    LET refresh_token == get_refresh_token_from_headers(headers)
        g == GenerateOn(token_cache, written, refresh_token, resp)
    IN  IF ~Truthy(refresh_token)
        THEN [raised |-> Raise("Exception",
                  "Missing X-OAuth-Refresh-Token header for authentication"),
              token |-> NONE, cache |-> token_cache, written |-> written]
        ELSE IF ~Truthy(g.token)
        THEN [raised |-> Raise("Exception",
                  "Failed to generate access token from refresh token"),
              token |-> NONE, cache |-> g.cache, written |-> g.written]
        ELSE [raised |-> << >>] @@ g

(* ads_client.login_customer_id = login_customer_id, if it is given       *)
(* (lines 222-223; mutations.py lines 103-104).                           *)
WithLogin(client, login_customer_id) ==
    IF Truthy(login_customer_id)
    THEN [client EXCEPT !.login_customer_id = login_customer_id]
    ELSE client

(* The process-wide client after a tool used client: an assignment to the *)
(* shared object is an assignment to _ADS_CLIENT.                         *)
AdsClientAfter(ads, client) == IF client.shared THEN <<client>> ELSE ads

(* The request a service of client sends: the method, the credential and  *)
(* the login-customer-id of the client.                                   *)
Request(method, client, query) ==
    [method |-> method, credential |-> <<client.method, client.token>>,
     login_customer_id |-> client.login_customer_id, query |-> query]

(* ====================================================================== *)
(*                               the tools                                *)
(* ====================================================================== *)

(* What a tool invocation did: its arguments and headers, what            *)
(* get_ads_client was given (auth, <<>> if it was not called), the client *)
(* it got, the requests it sent to the Ads API with the answer, and the   *)
(* exception it raised or the value it returned.                          *)
Outcome(tool, login_customer_id, headers, access_token, auth, client, requests, answer, raised, ret) ==
    [tool |-> tool, login_customer_id |-> login_customer_id,
     refresh |-> headers.refresh, access |-> headers.access,
     access_token |-> access_token, auth |-> auth, client |-> client,
     requests |-> requests, answer |-> answer, raised |-> raised,
     ret |-> ret]

(* account.split("/")[-1] *)
RECURSIVE LastPart(_)
LastPart(account) ==
    IF \E i \in 1 .. Len(account) : SubSeq(account, i, i) = "/"
    THEN LastPart(SubSeq(account, 2, Len(account)))
    ELSE account

(* str(err) of an error that holds a message only. *)
ErrorText(error) == "message: \"" \o error.message \o "\"\n"

(* What list_accessible_customers answers. *)
AccountAnswers ==
    {[kind |-> "resource_names", names |-> <<"customers/111", "customers/222">>],
     [kind |-> "GoogleAdsException",
      errors |-> <<[message |-> "No access.", location |-> << >>,
                    error_code |-> << >>, trigger |-> << >>]>>]}

(* What mutate_campaign_budgets answers. *)
MutateAnswers ==
    {[kind |-> "results", resource_name |-> "customers/111/campaignBudgets/5"],
     [kind |-> "GoogleAdsException",
      errors |-> <<[message |-> "No access.", location |-> << >>,
                    error_code |-> << >>, trigger |-> << >>]>>]}

(* The login_customer_id arguments: not given, or an account. *)
LoginCustomerIds == {NONE, "111"}

(* The store of the token cache and of the process-wide client at the end *)
(* of a tool call.                                                        *)
Leave(cache, w, ads) ==
    /\ token_cache' = cache
    /\ written' = w
    /\ _ADS_CLIENT' = ads
    /\ UNCHANGED <<now, hashOf, _access_token, _token_expires_at, inflight,
                   last, startup>>

(* list_accessible_accounts() (lines 132-156). *)
list_accessible_accounts(headers, env, resp, answer) ==
    LET tool == "list_accessible_accounts"
        tok == ToolAccessToken(headers, resp)
        req == FlaskRequest(headers, env)
        got == get_ads_client(tok.token, tok.cache, tok.written, req, env, resp)
        auth == <<AuthInputs(tok.token, tok.cache, tok.written, req, env, resp)>>
        ads_client == got.client[1]
        requests == <<Request("list_accessible_customers", ads_client, NONE)>>
    IN  /\ SameFile(env, resp)
        /\ IF tok.raised # << >>
           THEN /\ Leave(tok.cache, tok.written, _ADS_CLIENT)
                /\ call' = Outcome(tool, NONE, headers, tok.token, << >>,
                                   << >>, << >>, << >>, tok.raised, << >>)
           ELSE IF got.raised # << >>
           THEN /\ Leave(got.cache, got.written, got.ads)
                /\ call' = Outcome(tool, NONE, headers, tok.token, auth,
                                   << >>, << >>, << >>, got.raised, << >>)
           ELSE /\ Leave(got.cache, got.written, got.ads)
                /\ call' = Outcome(tool, NONE, headers, tok.token, auth,
                       <<ads_client>>, requests, <<answer>>,
                       IF answer.kind = "GoogleAdsException"
                       THEN Raise("GoogleAdsException",
                                  ErrorText(answer.errors[1]))
                       ELSE << >>,
                       IF answer.kind = "GoogleAdsException" THEN << >>
                       ELSE <<[i \in DOMAIN answer.names |->
                                 LastPart(answer.names[i])]>>)

(* execute_gaql(query, customer_id, login_customer_id) (lines 188-285). *)
execute_gaql(query, customer_id, login_customer_id, headers, env, resp, answer) ==
    LET tool == "execute_gaql"
        q == preprocess_gaql(query)
        tok == ToolAccessToken(headers, resp)
        req == FlaskRequest(headers, env)
        got == get_ads_client(tok.token, tok.cache, tok.written, req, env, resp)
        auth == <<AuthInputs(tok.token, tok.cache, tok.written, req, env, resp)>>
        ads_client == WithLogin(got.client[1], login_customer_id)
        requests == <<Request("search_stream", ads_client, q)>>
        output == Output(answer.batches, 1, 1)
    IN  /\ SameFile(env, resp)
        /\ IF tok.raised # << >>
           THEN /\ Leave(tok.cache, tok.written, _ADS_CLIENT)
                /\ call' = Outcome(tool, login_customer_id, headers,
                                   tok.token, << >>, << >>, << >>, << >>,
                                   tok.raised, << >>)
           ELSE IF got.raised # << >>
           THEN /\ Leave(got.cache, got.written, got.ads)
                /\ call' = Outcome(tool, login_customer_id, headers,
                                   tok.token, auth, << >>, << >>, << >>,
                                   got.raised, << >>)
           ELSE /\ Leave(got.cache, got.written,
                         AdsClientAfter(got.ads, ads_client))
                /\ call' = Outcome(tool, login_customer_id, headers,
                       tok.token, auth, <<ads_client>>, requests, <<answer>>,
                       IF answer.kind = "GoogleAdsException"
                       THEN Raise("RuntimeError", FullError(answer.errors))
                       ELSE IF output[1] = "raise"
                       THEN Raise("AttributeError", "get_nested_attr")
                       ELSE << >>,
                       IF answer.kind = "batches" /\ output[1] = "ok"
                       THEN <<output[2]>> ELSE << >>)

(* _get_client(login_customer_id) and create_campaign_budget              *)
(* (mutations.py lines 100-148).                                          *)
create_campaign_budget(customer_id, login_customer_id, headers, env, resp, answer) ==
    LET tool == "create_campaign_budget"
        req == FlaskRequest(headers, env)
        got == get_ads_client(NONE, token_cache, written, req, env, resp)
        auth == <<AuthInputs(NONE, token_cache, written, req, env, resp)>>
        ads_client == WithLogin(got.client[1], login_customer_id)
        requests == <<Request("mutate_campaign_budgets", ads_client, NONE)>>
    IN  /\ SameFile(env, resp)
        /\ IF got.raised # << >>
           THEN /\ Leave(got.cache, got.written, got.ads)
                /\ call' = Outcome(tool, login_customer_id, headers, NONE,
                                   auth, << >>, << >>, << >>, got.raised,
                                   << >>)
           ELSE /\ Leave(got.cache, got.written,
                         AdsClientAfter(got.ads, ads_client))
                /\ call' = Outcome(tool, login_customer_id, headers, NONE,
                       auth, <<ads_client>>, requests, <<answer>>,
                       IF answer.kind = "GoogleAdsException"
                       THEN Raise("ToolError", ErrorText(answer.errors[1]))
                       ELSE << >>,
                       IF answer.kind = "GoogleAdsException" THEN << >>
                       ELSE <<[resource_name |-> answer.resource_name]>>)

(* The pure functions on inputs drawn once, and execute_gaql on every     *)
(* answer of the Ads API, under a request that authenticates.             *)
(* str.upper() on ASCII text. *)
UpperChar(c) ==
    LET lower == "abcdefghijklmnopqrstuvwxyz"
        capital == "ABCDEFGHIJKLMNOPQRSTUVWXYZ"
        at == {i \in 1 .. Len(lower) : SubSeq(lower, i, i) = c}
    IN  IF at = {} THEN c
        ELSE LET i == CHOOSE j \in at : TRUE IN SubSeq(capital, i, i)

RECURSIVE upper(_)
upper(text) ==
    IF text = "" THEN ""
    ELSE UpperChar(SubSeq(text, 1, 1)) \o upper(SubSeq(text, 2, Len(text)))

(* _MATCH_TYPE_MAP.get(name) (mutations.py 327-331): <<the enum value>>,  *)
(* or << >> for None.                                                     *)
_MATCH_TYPE_MAP(name) ==
    IF name \in {"EXACT", "PHRASE", "BROAD"} THEN <<name>> ELSE << >>

(* The keyword dicts create_keywords is given. *)
KeywordDicts ==
    {[text |-> "silver coin", match_type |-> "EXACT"],
     [text |-> "gold coin", match_type |-> "phrase"],
     [text |-> "coin", match_type |-> "NEGATIVE"]}

KeywordLists == UNION {[1 .. n -> KeywordDicts] : n \in 0 .. MaxKeywords}

(* AdGroupCriterionOperation(create=criterion) of lines 364-372. *)
AdGroupCriterionOperation(ad_group_resource_name, kw) ==
    [create |-> [ad_group |-> ad_group_resource_name, status |-> "ENABLED",
                 keyword |-> [text |-> kw.text,
                              match_type |->
                                  _MATCH_TYPE_MAP(upper(kw.match_type))[1]]]]

(* A variant of the loop of create_keywords that leaves the keywords with *)
(* an invalid match_type out.                                             *)
KeywordOperationsSkipping(ad_group_resource_name, keywords) ==
    LET valid == SelectSeq(keywords,
                    LAMBDA kw : _MATCH_TYPE_MAP(upper(kw.match_type)) # << >>)
    IN  [raised |-> << >>,
         operations |-> [i \in 1 .. Len(valid) |->
             AdGroupCriterionOperation(ad_group_resource_name, valid[i])]]

(* The loop of create_keywords (lines 357-372): the operations, or the    *)
(* ToolError of the first keyword whose match_type is not in the map.     *)
RECURSIVE KeywordOperationsFrom(_, _, _)
KeywordOperationsFrom(ad_group_resource_name, keywords, operations) ==
    IF keywords = << >>
    THEN [raised |-> << >>, operations |-> operations]
    ELSE LET kw == Head(keywords)
             match_type == _MATCH_TYPE_MAP(upper(kw.match_type))
         IN  IF match_type = << >>
             THEN [raised |-> Raise("ToolError",
                       "Invalid match_type: " \o kw.match_type
                           \o ". Use EXACT, PHRASE, or BROAD."),
                   operations |-> operations]
             ELSE KeywordOperationsFrom(ad_group_resource_name, Tail(keywords),
                      Append(operations,
                          AdGroupCriterionOperation(ad_group_resource_name, kw)))

KeywordOperations(ad_group_resource_name, keywords) ==
    KeywordOperationsFrom(ad_group_resource_name, keywords, << >>)

(* The answers of mutate_ad_group_criteria to a request: one result for   *)
(* each operation, or a GoogleAdsException.                               *)
CriteriaAnswers(operations) ==
    {[kind |-> "results",
      results |-> [i \in 1 .. Len(operations) |->
          operations[i].create.ad_group \o "/criteria~"
              \o operations[i].create.keyword.text]],
     [kind |-> "GoogleAdsException",
      errors |-> <<[message |-> "No access.", location |-> << >>,
                    error_code |-> << >>, trigger |-> << >>]>>]}

(* create_keywords (mutations.py 335-384) with its arguments, under the   *)
(* request headers, the environment env, the token endpoint answering     *)
(* resp and the Ads API answering answer.                                 *)
create_keywords(customer_id, ad_group_resource_name, keywords, login_customer_id, headers, env, resp, answer) ==
    LET tool == "create_keywords"
        req == FlaskRequest(headers, env)
        got == get_ads_client(NONE, token_cache, written, req, env, resp)
        auth == <<AuthInputs(NONE, token_cache, written, req, env, resp)>>
        ads_client == WithLogin(got.client[1], login_customer_id)
        loop == KeywordOperations(ad_group_resource_name, keywords)
        request == [method |-> "mutate_ad_group_criteria",
                    credential |-> <<ads_client.method, ads_client.token>>,
                    login_customer_id |-> ads_client.login_customer_id,
                    customer_id |-> customer_id,
                    operations |-> loop.operations]
        out(client, requests, ans, raised, ret) ==
            [tool |-> tool, login_customer_id |-> login_customer_id,
             refresh |-> headers.refresh, access |-> headers.access,
             access_token |-> NONE, auth |-> auth, client |-> client,
             requests |-> requests, answer |-> ans, raised |-> raised,
             ret |-> ret, keywords |-> keywords,
             ad_group_resource_name |-> ad_group_resource_name]
    IN  /\ SameFile(env, resp)
        /\ IF got.raised # << >>
           THEN /\ Leave(got.cache, got.written, got.ads)
                /\ call' = out(<< >>, << >>, << >>, got.raised, << >>)
           ELSE /\ Leave(got.cache, got.written,
                         AdsClientAfter(got.ads, ads_client))
                /\ IF loop.raised # << >>
                   THEN call' = out(<<ads_client>>, << >>, << >>, loop.raised,
                                    << >>)
                   ELSE /\ answer \in CriteriaAnswers(loop.operations)
                        /\ call' = out(<<ads_client>>, <<request>>, <<answer>>,
                               IF answer.kind = "GoogleAdsException"
                               THEN Raise("ToolError",
                                          ErrorText(answer.errors[1]))
                               ELSE << >>,
                               IF answer.kind = "GoogleAdsException" THEN << >>
                               ELSE <<[resource_names |-> answer.results]>>)

(* ---------------------------------------------------------------------- *)
(* tools/docs.py.  Paths are strings; the file system is the set of the   *)
(* files that exist, under directories that are always there.             *)
MODULE_DIR == "/app/ads_mcp"

(* str.startswith *)
startswith(text, prefix) ==
    Len(prefix) <= Len(text) /\ SubSeq(text, 1, Len(prefix)) = prefix

(* path.split("/") *)
RECURSIVE SplitFrom(_, _)
SplitFrom(path, segment) ==
    IF path = "" THEN <<segment>>
    ELSE IF SubSeq(path, 1, 1) = "/"
    THEN <<segment>> \o SplitFrom(SubSeq(path, 2, Len(path)), "")
    ELSE SplitFrom(SubSeq(path, 2, Len(path)), segment \o SubSeq(path, 1, 1))

Split(path) == SplitFrom(path, "")

(* "/" and the segments joined by "/" *)
RECURSIVE JoinSegments(_)
JoinSegments(segments) ==
    IF segments = << >> THEN ""
    ELSE "/" \o Head(segments) \o JoinSegments(Tail(segments))

AbsolutePath(segments) ==
    IF segments = << >> THEN "/" ELSE JoinSegments(segments)

(* os.path.join(directory, name) *)
join(directory, name) ==
    IF startswith(name, "/") THEN name ELSE directory \o "/" \o name

(* The segments of an absolute path without its empty, "." and ".."       *)
(* segments, ".." taking the last segment kept away.                      *)
RECURSIVE Normalised(_, _)
Normalised(kept, segments) ==
    IF segments = << >> THEN kept
    ELSE LET segment == Head(segments)
         IN  IF segment \in {"", "."}
             THEN Normalised(kept, Tail(segments))
             ELSE IF segment = ".."
             THEN Normalised(SubSeq(kept, 1, Len(kept) - 1), Tail(segments))
             ELSE Normalised(Append(kept, segment), Tail(segments))

(* os.path.realpath of an absolute path; the tree holds no symbolic link. *)
realpath(path) == AbsolutePath(Normalised(<< >>, Split(path)))

(* The files that may exist. *)
CandidateFiles ==
    {"/app/ads_mcp/context/Google_Ads_API_Reporting_Views.md",
     "/app/ads_mcp/context/views/campaign.yaml",
     "/app/ads_mcp/context/views_old/campaign.yaml",
     "/app/ads_mcp/secret.yaml"}

(* The directories: the ancestors of the files that may exist. *)
Directories ==
    UNION {LET segments == Normalised(<< >>, Split(file))
           IN  {AbsolutePath(SubSeq(segments, 1, n)) :
                   n \in 0 .. Len(segments) - 1} : file \in CandidateFiles}

(* The file the operating system reaches by path, <<file>>, or << >> when *)
(* a segment is looked up in something that is not a directory.           *)
RECURSIVE Lookup(_, _)
Lookup(kept, segments) ==
    IF segments = << >> THEN <<AbsolutePath(kept)>>
    ELSE IF AbsolutePath(kept) \notin Directories THEN << >>
    ELSE LET segment == Head(segments)
         IN  IF segment \in {"", "."}
             THEN Lookup(kept, Tail(segments))
             ELSE IF segment = ".."
             THEN Lookup(SubSeq(kept, 1, Len(kept) - 1), Tail(segments))
             ELSE Lookup(Append(kept, segment), Tail(segments))

(* open(path, "r"): <<the file opened>>, or << >> for FileNotFoundError. *)
open(path, files) ==
    LET found == Lookup(<< >>, Split(path))
    IN  IF found # << >> /\ found[1] \in files THEN found ELSE << >>

(* f.read() *)
read(file) == "content of " \o file

(* The view names get_reporting_view_doc is given. *)
Views ==
    {"campaign", "non_existent", "./campaign", "nowhere/../campaign",
     "../views/campaign", "../views_old/campaign", "../../secret",
     "/app/ads_mcp/secret", "/app/ads_mcp/context/views/campaign"}

(* What a call of a docs function did. *)
DocResult(opened, raised, ret) ==
    [opened |-> opened, raised |-> raised, ret |-> ret]

(* _get_view_doc_content(view) (docs.py 46-63) on the files there are. *)
_get_view_doc_content(view, files) ==
    LET expected_dir == realpath(join(join(MODULE_DIR, "context"), "views"))
        target_file == join(expected_dir, view \o ".yaml")
        resolved_path == realpath(target_file)
        f == open(target_file, files)
    IN  IF ~startswith(resolved_path, expected_dir)
        THEN DocResult(<< >>, << >>, <<"Invalid view name.">>)
        ELSE IF f = << >>
        THEN DocResult(<< >>, Raise("ToolError",
                 "No view resource with the name " \o view \o " was found."),
                 << >>)
        ELSE DocResult(f, << >>, <<read(f[1])>>)

(* _get_reporting_doc_content() (docs.py 35-43). *)
_get_reporting_doc_content(files) ==
    LET f == open(join(MODULE_DIR,
                       "context/Google_Ads_API_Reporting_Views.md"), files)
    IN  IF f = << >>
        THEN DocResult(<< >>, Raise("FileNotFoundError", "No such file"), << >>)
        ELSE DocResult(f, << >>, <<read(f[1])>>)

(* get_reporting_view_doc(view) (docs.py 79-93); view is NONE when the    *)
(* argument is left out.                                                  *)
get_reporting_view_doc(view, files) ==
    LET done == IF Truthy(view) THEN _get_view_doc_content(view, files)
                ELSE _get_reporting_doc_content(files)
    IN  /\ call' = [tool |-> "get_reporting_view_doc", view |-> view,
                    files |-> files, opened |-> done.opened,
                    raised |-> done.raised, ret |-> done.ret]
        /\ UNCHANGED <<now, hashOf, token_cache, _access_token,
                       _token_expires_at, inflight, last, written,
                       _ADS_CLIENT, startup>>

GoodHeaders == [refresh |-> TokenNames[1], access |-> NONE]
GoodEnv == [file |-> TRUE, fastmcp |-> NONE, bound |-> FALSE]
GoodResponse ==
    [kind |-> "status_200", access_token |-> "ya29.a", expires_in |-> << >>]

Query == \E answer \in Answers :
    execute_gaql("SELECT campaign.id FROM campaign", google_ads_account_id,
                 NONE, GoodHeaders, GoodEnv, GoodResponse, answer)

FormatValue == \E value \in Values : Format(value)

(* get_reporting_view_doc with or without a view, on any files. *)
ViewDoc ==
    \E view \in Views \cup {NONE, ""}, files \in SUBSET CandidateFiles :
        get_reporting_view_doc(view, files)

(* create_keywords with the credentials file there or not. *)
Keywords ==
    \E keywords \in KeywordLists, login_customer_id \in LoginCustomerIds,
       file \in BOOLEAN :
       LET ad_group == "customers/111/adGroups/3"
           operations == KeywordOperations(ad_group, keywords).operations
       IN  \E answer \in CriteriaAnswers(operations) :
               create_keywords(google_ads_account_id, ad_group, keywords,
                               login_customer_id, GoodHeaders,
                               [GoodEnv EXCEPT !.file = file], GoodResponse,
                               answer)

NextGaql ==
    \/ call = NoCall /\ PreprocessQuery
    \/ PreprocessAgain
    \/ call = NoCall /\ FormatValue
    \/ call = NoCall /\ Query
    \/ call = NoCall /\ Keywords
    \/ call = NoCall /\ ViewDoc

SpecGaql == Init /\ [][NextGaql]_vars

(* When the tools run one after another, the Ads API gives each its      *)
(* plain answer: the errors and the rows of an answer are SpecGaql's.     *)
ToolAnswers == {[kind |-> "batches", batches |-> << >>]}
PlainAnswer(answer) == answer.kind # "GoogleAdsException"

(* The answers of the external OAuth API drawn when the tools run. *)
ToolExternalResponses ==
    {resp \in ExternalResponses :
        Truthy(resp.access_token) /\ resp.expires_in = << >>}

NextTools ==
    \/ \E resp \in ToolExternalResponses : _get_token_from_external_api(resp)
    \/ \E headers \in ToolHeaders, env \in Envs, resp \in ToolTokenResponses,
          answer \in {a \in AccountAnswers : PlainAnswer(a)} :
          list_accessible_accounts(headers, env, resp, answer)
    \/ \E login_customer_id \in LoginCustomerIds, headers \in ToolHeaders,
          env \in Envs, resp \in ToolTokenResponses, answer \in ToolAnswers :
          execute_gaql("SELECT campaign.id FROM campaign",
                       google_ads_account_id, login_customer_id, headers, env,
                       resp, answer)
    \/ \E login_customer_id \in LoginCustomerIds, headers \in ToolHeaders,
          env \in Envs, resp \in ToolTokenResponses,
          answer \in {a \in MutateAnswers : PlainAnswer(a)} :
          create_campaign_budget(google_ads_account_id, login_customer_id,
                                 headers, env, resp, answer)

(* The tools run from a start in which no two refresh tokens share a     *)
(* cache key.                                                             *)
InitTools ==
    /\ Init
    /\ \A s, t \in RefreshTokens :
          Abs(hashOf[s]) = Abs(hashOf[t]) => s = t

SpecTools == InitTools /\ [][NextTools]_vars

(* ---------------------------------------------------------------------- *)
(* server.py and scripts/generate_views.py: the start of the server.      *)
ADS_API_VERSION == "v22"

(* str.strip() *)
RECURSIVE lstrip(_)
lstrip(text) ==
    IF text # "" /\ SubSeq(text, 1, 1) \in {" ", "\n", "\t"}
    THEN lstrip(SubSeq(text, 2, Len(text)))
    ELSE text

RECURSIVE rstrip(_)
rstrip(text) ==
    IF text # "" /\ SubSeq(text, Len(text), Len(text)) \in {" ", "\n", "\t"}
    THEN rstrip(SubSeq(text, 1, Len(text) - 1))
    ELSE text

strip(text) == rstrip(lstrip(text))

(* int(text) on decimal digits *)
RECURSIVE IntFrom(_, _)
IntFrom(n, text) ==
    IF text = "" THEN n
    ELSE LET c == SubSeq(text, 1, 1)
             d == CHOOSE i \in 0 .. 9 : SubSeq("0123456789", i + 1, i + 1) = c
         IN  IntFrom(10 * n + d, SubSeq(text, 2, Len(text)))

int(text) == IntFrom(0, text)

(* v.split(".")[0] *)
RECURSIVE BeforeDot(_)
BeforeDot(text) ==
    IF text = "" \/ SubSeq(text, 1, 1) = "." THEN ""
    ELSE SubSeq(text, 1, 1) \o BeforeDot(SubSeq(text, 2, Len(text)))

(* ", ".join(values) *)
RECURSIVE JoinComma(_)
JoinComma(values) ==
    IF values = << >> THEN ""
    ELSE IF Len(values) = 1 THEN values[1]
    ELSE values[1] \o ", " \o JoinComma(Tail(values))

(* d.update(e) *)
update(d, e) ==
    [k \in DOMAIN d \cup DOMAIN e |-> IF k \in DOMAIN e THEN e[k] ELSE d[k]]

(* What .api-version may hold when a process starts: nothing (no file),   *)
(* the version of an older release, or the current one as f.write or an   *)
(* editor left it.                                                        *)
Versions == {<< >>, <<"v21">>, <<"v22">>, <<"v22\n">>}

(* The views that context/views.yaml lists. *)
ViewsYaml ==
    LET views == <<"campaign", "ad_group", "customer">>
    IN  SubSeq(views, 1, IF MaxViews < Len(views) THEN MaxViews ELSE Len(views))

(* view_json["fields"][field] of the schema service. *)
Field(description, data_type, enum_values) ==
    [field_details |->
        [description |-> description, category |-> "ATTRIBUTE",
         data_type |-> data_type, is_repeated |-> FALSE,
         enum_values |-> enum_values, filterable |-> TRUE,
         sortable |-> TRUE]]

(* The JSON the schema service gives for a view: the first two views have *)
(* the field campaign.id, with details that differ.                       *)
ViewJson(view) ==
    IF view = "campaign"
    THEN [display_name |-> "Campaign", name |-> "campaign",
          description |-> "A campaign.",
          attributes |-> <<"campaign.id", "campaign.status">>,
          segments |-> <<"segments.date">>,
          metrics |-> <<"metrics.clicks">>,
          fields |->
              ("campaign.id" :> Field("The ID of the campaign.", "INT64", << >>))
              @@ ("campaign.status"
                    :> Field("The status.", "ENUM", <<"ENABLED", "PAUSED">>))
              @@ ("segments.date" :> Field("Date.", "DATE", << >>))
              @@ ("metrics.clicks" :> Field("Clicks.", "INT64", << >>))]
    ELSE IF view = "ad_group"
    THEN [display_name |-> "Ad group", name |-> "ad_group",
          description |-> "An ad group.",
          attributes |-> <<"ad_group.id", "campaign.id">>,
          segments |-> <<"segments.date">>,
          metrics |-> << >>,
          fields |->
              ("ad_group.id" :> Field("The ID of the ad group.", "INT64", << >>))
              @@ ("campaign.id"
                    :> Field("The campaign of the ad group.", "INT64", << >>))
              @@ ("segments.date" :> Field("Date.", "DATE", << >>))]
    ELSE [display_name |-> "Customer", name |-> "customer",
          description |-> "A customer.",
          attributes |-> <<"customer.id">>,
          segments |-> << >>,
          metrics |-> <<"metrics.clicks">>,
          fields |->
              ("customer.id" :> Field("The ID of the customer.", "INT64", << >>))
              @@ ("metrics.clicks"
                    :> Field("The clicks of the customer.", "INT64", << >>))]

(* details(field) of get_fields_obj (lines 67-76): enum_values is joined  *)
(* for an ENUM and deleted otherwise (<< >>).                             *)
details(view_json, field) ==
    LET raw_data == view_json.fields[field].field_details
    IN  [description |-> raw_data.description,
         data_type |-> raw_data.data_type,
         is_repeated |-> raw_data.is_repeated,
         enum_values |-> IF raw_data.data_type = "ENUM"
                         THEN <<JoinComma(raw_data.enum_values)>> ELSE << >>,
         filterable |-> raw_data.filterable,
         sortable |-> raw_data.sortable]

(* get_fields_obj(view_json, category) (lines 51-78). *)
get_fields_obj(view_json, category) ==
    [field \in Range(view_json[category]) |-> details(view_json, field)]

(* attributed_views of save_view_yaml (lines 85-89), as a set: the order  *)
(* of list(set) is not fixed.                                             *)
attributed_views(view_json, view) ==
    {BeforeDot(v) : v \in {a \in Range(view_json.attributes) :
                               ~startswith(a, view \o ".")}}

(* view_data of save_view_yaml (lines 91-99). *)
view_data(view_json, view) ==
    [display_name |-> view_json.display_name, name |-> view_json.name,
     description |-> view_json.description,
     attributed_views |-> attributed_views(view_json, view),
     attributes |-> get_fields_obj(view_json, "attributes"),
     segments |-> get_fields_obj(view_json, "segments"),
     metrics |-> get_fields_obj(view_json, "metrics")]

(* view_output of save_view_yaml (lines 101-109): the names of the fields *)
(* in the order of the JSON.                                              *)
view_output(view_json, view) ==
    [display_name |-> view_json.display_name, name |-> view_json.name,
     description |-> view_json.description,
     attributed_views |-> attributed_views(view_json, view),
     attributes |-> view_json.attributes,
     segments |-> view_json.segments,
     metrics |-> view_json.metrics]

(* A variant of asyncio.gather that gives the results in the order in     *)
(* which the tasks completed.                                             *)
gather_as_completed(tasks) ==
    [i \in 1 .. Len(server.order) |-> tasks[server.order[i]].result[1]]

(* asyncio.gather over the tasks once every task is done: the results in *)
(* the order of the tasks.                                                *)
gather(tasks) == [i \in 1 .. Len(tasks) |-> tasks[i].result[1]]

(* The loop of update_views_yaml (lines 130-133) on the dict all_fields. *)
RECURSIVE AllFields(_, _)
AllFields(all_fields, views_data) ==
    IF views_data = << >> THEN all_fields
    ELSE LET view == Head(views_data)
         IN  AllFields(
                 update(update(update(all_fields, view.attributes),
                               view.segments), view.metrics),
                 Tail(views_data))

(* The test of lines 119-122: .api-version is a file and holds the        *)
(* version once stripped.                                                 *)
UpToDate(d) == d.version # << >> /\ strip(d.version[1]) = ADS_API_VERSION

(* The environments of the process. *)
Environs ==
    [PORT : {<< >>, <<"8080">>},
     USE_GOOGLE_OAUTH_ACCESS_TOKEN : {<< >>, <<"true">>}]

(* The call that starts the server (server.py 43-59). *)
StartCall(environ) ==
    IF environ.PORT # << >>
    THEN [name |-> "mcp_server.run_async",
          transport |-> <<"streamable-http">>,
          port |-> <<int(environ.PORT[1])>>]
    ELSE [name |-> "mcp_server.run", transport |-> << >>, port |-> << >>]

(* The rest of main() (server.py 31-59) in the process s, once the update *)
(* has ended as update_ says: the server is started.                      *)
Served(s, update_) ==
    [s EXCEPT !.pc = "serving", !.update = update_,
              !.calls = Append(@, StartCall(s.environ))]

(* main() (server.py 21-59) up to the await of update_views_yaml (lines   *)
(* 119-128 of generate_views.py), or to the start of the server when the  *)
(* update returns or raises before; views is what views.yaml gives, << >> *)
(* when it cannot be read.                                                *)
main(environ, views) ==
    /\ server.pc = "stopped"
    /\ LET entered == [server EXCEPT
                          !.environ = environ,
                          !.calls = <<[name |-> "update_views_yaml",
                                       transport |-> << >>, port |-> << >>]>>]
       IN  IF UpToDate(disk)
           THEN server' = Served(entered, "current")
           ELSE IF views = << >>
           THEN server' = Served(entered, "skipped")
           ELSE server' = [entered EXCEPT
                              !.pc = "gather", !.update = "running",
                              !.tasks = [i \in 1 .. Len(views[1]) |->
                                  [view |-> views[1][i], result |-> << >>]]]
    /\ UNCHANGED <<oauth, _ADS_CLIENT, call, disk>>

(* The tasks that are not done. *)
Pending == {i \in 1 .. Len(server.tasks) : server.tasks[i].result = << >>}

(* context/views with the files of the tasks in done written. *)
ViewsWritten(done) ==
    update(disk.views,
           [view \in {server.tasks[i].view : i \in done} |->
               view_output(ViewJson(view), view)])

(* save_view_yaml (generate_views.py 81-114) of task i from the answer of *)
(* the schema service on: fetched says that the JSON came, opened that    *)
(* the view file could be opened.  When it raises, gather raises, main    *)
(* catches (server.py 29) and the loop is closed; meanwhile holds the     *)
(* other tasks that got to their end before that.                         *)
save_view_yaml(i, fetched, opened, meanwhile) ==
    /\ server.pc = "gather"
    /\ i \in Pending
    /\ meanwhile \subseteq Pending \ {i}
    /\ IF fetched /\ opened
       THEN /\ meanwhile = {}
            /\ disk' = [disk EXCEPT !.views = ViewsWritten({i})]
            /\ server' = [server EXCEPT
                  !.tasks[i].result =
                      <<view_data(ViewJson(server.tasks[i].view),
                                  server.tasks[i].view)>>,
                  !.order = Append(@, i),
                  !.wrote = @ \cup {"views/" \o server.tasks[i].view
                                        \o ".yaml"}]
       ELSE /\ disk' = [disk EXCEPT !.views = ViewsWritten(meanwhile)]
            /\ server' = Served([server EXCEPT
                      !.wrote = @ \cup {"views/" \o server.tasks[j].view
                                            \o ".yaml" : j \in meanwhile}],
                      "skipped")
    /\ UNCHANGED <<oauth, _ADS_CLIENT, call>>

(* A variant of lines 135-139 that writes .api-version before             *)
(* fields.yaml.                                                           *)
WriteVersionFirst(d, all_fields, fields_opened, version_opened) ==
    IF ~version_opened
    THEN [disk |-> d, wrote |-> {}, update |-> "skipped"]
    ELSE IF ~fields_opened
    THEN [disk |-> [d EXCEPT !.version = <<ADS_API_VERSION>>],
          wrote |-> {".api-version"}, update |-> "skipped"]
    ELSE [disk |-> [d EXCEPT !.fields = <<all_fields>>,
                             !.version = <<ADS_API_VERSION>>],
          wrote |-> {"fields.yaml", ".api-version"}, update |-> "updated"]

(* Lines 135-139: fields.yaml is written, then .api-version; an open that *)
(* fails raises and leaves its file as it was.                            *)
WriteFieldsAndVersion(d, all_fields, fields_opened, version_opened) ==
    IF ~fields_opened
    THEN [disk |-> d, wrote |-> {}, update |-> "skipped"]
    ELSE IF ~version_opened
    THEN [disk |-> [d EXCEPT !.fields = <<all_fields>>],
          wrote |-> {"fields.yaml"}, update |-> "skipped"]
    ELSE [disk |-> [d EXCEPT !.fields = <<all_fields>>,
                             !.version = <<ADS_API_VERSION>>],
          wrote |-> {"fields.yaml", ".api-version"}, update |-> "updated"]

(* update_views_yaml (generate_views.py 128-139) from the return of       *)
(* gather on, and the rest of main().                                     *)
update_views_yaml(fields_opened, version_opened) ==
    /\ server.pc = "gather"
    /\ Pending = {}
    /\ LET views_data == gather(server.tasks)
           done == WriteFieldsAndVersion(disk, AllFields(<< >>, views_data),
                                         fields_opened, version_opened)
       IN  /\ disk' = done.disk
           /\ server' = Served([server EXCEPT !.wrote = @ \cup done.wrote],
                               done.update)
    /\ UNCHANGED <<oauth, _ADS_CLIENT, call>>

(* The process ends; the files stay. *)
exit ==
    /\ server.pc = "serving"
    /\ server' = [NotRunning EXCEPT !.previous = server.update]
    /\ UNCHANGED <<oauth, _ADS_CLIENT, call, disk>>

NextServer ==
    \/ \E environ \in Environs, views \in {<< >>, <<ViewsYaml>>} :
          main(environ, views)
    \/ \E i \in 1 .. MaxViews, fetched \in BOOLEAN, opened \in BOOLEAN,
          meanwhile \in SUBSET (1 .. MaxViews) :
          save_view_yaml(i, fetched, opened, meanwhile)
    \/ \E fields_opened \in BOOLEAN, version_opened \in BOOLEAN :
          update_views_yaml(fields_opened, version_opened)
    \/ exit

(* A process starts with any .api-version on the disk. *)
InitServer ==
    /\ now = 0
    /\ hashOf = CHOOSE h \in HashFunctions : TRUE
    /\ token_cache = EmptyDict
    /\ _access_token = NONE
    /\ _token_expires_at = << >>
    /\ inflight = EmptyBag
    /\ last = NoResult
    /\ written = EmptyDict
    /\ _ADS_CLIENT = << >>
    /\ call = NoCall
    /\ disk \in {[NoFiles EXCEPT !.version = v] : v \in Versions}
    /\ server = NotRunning

SpecServer == InitServer /\ [][NextServer]_vars

(* ====================================================================== *)
(*                               properties                               *)
(* ====================================================================== *)

(* C1, as stated, for the entry E that an exchange of R stored and that   *)
(* the store of an overlapping exchange of R has just replaced: a later   *)
(* _generate_access_token_from_refresh(R), made while now < E.expires_at  *)
(* and with no clear in between (the key is still in the cache), returns  *)
(* E's access token and makes no POST.                                    *)
C1_StoredEntryIsServed ==
    [][(/\ last.at = "return"
        /\ last.replaced # << >>
        /\ _get_cache_key_for_refresh_token(last.refresh_token)
              \in DOMAIN token_cache
        /\ now < last.replaced[1].expires_at
        /\ _generate_access_token_from_refresh(last.refresh_token))
       => (/\ last'.at = "return"
           /\ last'.v = last.replaced[1].access_token
           /\ ~last'.posted
           /\ inflight' = inflight)]_vars

(* C1, amended: while the entry under R's cache key is one an exchange of *)
(* R stored (no clear for a token with that key and no later store under  *)
(* that key has replaced it) and now < its expires_at,                    *)
(* _generate_access_token_from_refresh(R) returns that entry's access     *)
(* token, makes no POST and leaves the cache as it is.                    *)
C1_HeldEntryIsServed ==
    [][\A refresh_token \in RefreshTokens :
        LET cache_key == _get_cache_key_for_refresh_token(refresh_token)
        IN  (/\ cache_key \in DOMAIN token_cache
             /\ written[cache_key].refresh_token = refresh_token
             /\ now < token_cache[cache_key].expires_at
             /\ _generate_access_token_from_refresh(refresh_token))
            => (/\ last' = [at |-> "return",
                            op |-> "_generate_access_token_from_refresh",
                            refresh_token |-> refresh_token,
                            v |-> token_cache[cache_key].access_token,
                            posted |-> FALSE, replaced |-> << >>]
                /\ inflight' = inflight
                /\ token_cache' = token_cache)]_vars

(* A direct call has just been served, without a POST, the entry an       *)
(* exchange of its own refresh token stored.                              *)
C1_Witness ==
    /\ last.at = "return"
    /\ last.op = "_generate_access_token_from_refresh"
    /\ ~last.posted
    /\ last.v \in AccessTokens
    /\ LET cache_key == _get_cache_key_for_refresh_token(last.refresh_token)
       IN  /\ cache_key \in DOMAIN token_cache
           /\ written[cache_key].refresh_token = last.refresh_token
           /\ token_cache[cache_key].access_token = last.v
           /\ now < token_cache[cache_key].expires_at

(* C2: when the entry under R's cache key has expires_at <= now,          *)
(* _generate_access_token_from_refresh(R) does not return from the cache  *)
(* check but goes on to the exchange, and what the call returns is what   *)
(* that exchange yields: the new access token, or None.                   *)
C2_ExpiredEntryIsExchanged ==
    [][/\ \A refresh_token \in RefreshTokens :
            LET cache_key == _get_cache_key_for_refresh_token(refresh_token)
            IN  (/\ cache_key \in DOMAIN token_cache
                 /\ token_cache[cache_key].expires_at <= now
                 /\ _generate_access_token_from_refresh(refresh_token))
                => (/\ last'.at = "post"
                    /\ last'.refresh_token = refresh_token
                    /\ inflight' = inflight (+) SetToBag({Frame(
                          "_generate_access_token_from_refresh",
                          refresh_token)}))
       /\ \A f \in Frames, resp \in TokenResponses :
            (/\ f.op = "_generate_access_token_from_refresh"
             /\ exchange(f, resp))
            => (/\ last'.at = "return"
                /\ last'.refresh_token = f.refresh_token
                /\ last'.v = IF /\ resp.kind = "status_200"
                                /\ resp.access_token \notin {NONE, ""}
                             THEN resp.access_token
                             ELSE NONE)]_vars

(* A direct call is blocked in its POST although the cache holds an entry *)
(* under its key: the entry had expired when the call checked.            *)
C2_Witness ==
    /\ last.at = "post"
    /\ last.op = "_generate_access_token_from_refresh"
    /\ LET cache_key == _get_cache_key_for_refresh_token(last.refresh_token)
       IN  /\ cache_key \in DOMAIN token_cache
           /\ token_cache[cache_key].expires_at <= now

(* C3: an exchange that the endpoint answers with an access token returns *)
(* that (non-empty) token, whatever other exchange of the same refresh    *)
(* token stored in the meantime, and leaves under the key exactly its own *)
(* entry: access_token and expires_at both from its own response (the     *)
(* last writer wins, no mix of two exchanges), other keys untouched.      *)
C3_LastWriterWins ==
    [][\A f \in Frames, resp \in TokenResponses :
        LET cache_key == _get_cache_key_for_refresh_token(f.refresh_token)
        IN  (/\ f.op = "_generate_access_token_from_refresh"
             /\ resp.kind = "status_200"
             /\ resp.access_token \notin {NONE, ""}
             /\ exchange(f, resp))
            => (/\ last'.at = "return"
                /\ last'.v = resp.access_token
                /\ DOMAIN token_cache' = DOMAIN token_cache \cup {cache_key}
                /\ token_cache'[cache_key].access_token = resp.access_token
                /\ token_cache'[cache_key].expires_at =
                      IF resp.expires_in = << >>
                      THEN now + 3600 - 60
                      ELSE now + resp.expires_in[1] - 60
                /\ \A k \in DOMAIN token_cache \ {cache_key} :
                      token_cache'[k] = token_cache[k])]_vars

(* Two exchanges of one refresh token were in flight together and both    *)
(* have returned: the first stored one access token, the second has just  *)
(* returned another and replaced the fresh entry of the first, and the    *)
(* cache holds the second's.                                              *)
C3_Witness ==
    /\ last.at = "return"
    /\ last.op = "_generate_access_token_from_refresh"
    /\ inflight = EmptyBag
    /\ last.replaced # << >>
    /\ last.replaced[1].access_token # last.v
    /\ LET cache_key == _get_cache_key_for_refresh_token(last.refresh_token)
       IN  /\ cache_key \in DOMAIN token_cache
           /\ token_cache[cache_key].access_token = last.v
           /\ \A r \in RefreshTokens \ {last.refresh_token} :
                 _get_cache_key_for_refresh_token(r) # cache_key

(* C4: _generate_access_token_from_refresh(R) returns a cached access     *)
(* token only if the entry it comes from was stored by an exchange of R   *)
(* itself, never one obtained by exchanging another refresh token.        *)
C4_CachedTokenIsOwn ==
    [][\A refresh_token \in RefreshTokens :
        (/\ _generate_access_token_from_refresh(refresh_token)
         /\ last'.at = "return"
         /\ last'.v # NONE)
        => written[_get_cache_key_for_refresh_token(refresh_token)]
              .refresh_token = refresh_token]_vars

(* C5: get_access_token under a request with a non-empty                  *)
(* X-OAuth-Access-Token returns exactly that value, blocks in no POST,    *)
(* and leaves token_cache, _access_token and _token_expires_at as they    *)
(* are, whatever the refresh-token header, the cache and the process-wide *)
(* token hold.                                                            *)
C5_AccessHeaderIsReturned ==
    [][\A req \in Requests :
        (/\ req.present
         /\ req.access \notin {NONE, ""}
         /\ get_access_token(req))
        => (/\ last' = [at |-> "return", op |-> "get_access_token",
                        refresh_token |-> NONE, v |-> req.access,
                        posted |-> FALSE, replaced |-> << >>]
            /\ inflight' = inflight
            /\ UNCHANGED <<token_cache, _access_token,
                           _token_expires_at>>)]_vars

(* get_access_token has just returned the header's access token while the *)
(* cache holds a fresh entry and the process-wide token is usable.        *)
C5_Witness ==
    /\ last.at = "return"
    /\ last.op = "get_access_token"
    /\ last.v \in HeaderTokens
    /\ \E k \in DOMAIN token_cache : token_cache[k].expires_at > now
    /\ _access_token \in ExternalTokens
    /\ _token_expires_at # << >>
    /\ now < _token_expires_at[1] - 60

(* C6: an exchange that fails in any way (credentials file missing,       *)
(* client id or secret missing, an exception before, in or after the      *)
(* POST, a status other than 200, a 200 without access_token) returns     *)
(* None and leaves token_cache as it is: an expired entry under the key   *)
(* is neither removed nor changed.                                        *)
C6_FailedExchangeKeepsCache ==
    [][\A f \in Frames, resp \in TokenResponses :
        (/\ f.op = "_generate_access_token_from_refresh"
         /\ ~(resp.kind = "status_200" /\ resp.access_token \notin {NONE, ""})
         /\ exchange(f, resp))
        => (/\ last'.at = "return"
            /\ last'.v = NONE
            /\ token_cache' = token_cache)]_vars

(* A direct call has just returned None from a failed exchange, and the   *)
(* expired entry under its key is still in the cache.                     *)
C6_Witness ==
    /\ last.at = "return"
    /\ last.op = "_generate_access_token_from_refresh"
    /\ last.v = NONE
    /\ LET cache_key == _get_cache_key_for_refresh_token(last.refresh_token)
       IN  /\ cache_key \in DOMAIN token_cache
           /\ token_cache[cache_key].expires_at <= now

(* C7, as stated: when the request carries a refresh-token header (and no *)
(* access-token header) and the exchange fails, get_access_token returns  *)
(* None, whatever the process-wide token is.                              *)
C7_FailedExchangeIsNotFound ==
    [][\A f \in Frames, resp \in TokenResponses :
        (/\ f.op = "get_access_token"
         /\ ~(resp.kind = "status_200" /\ resp.access_token \notin {NONE, ""})
         /\ exchange(f, resp))
        => last'.v = NONE]_vars

(* C7, amended: get_access_token never uses the process-wide token under  *)
(* an access-token header or when the refresh-token exchange yields a     *)
(* token; when the request carries a refresh-token header and the         *)
(* exchange fails it falls back to the process-wide token: it returns     *)
(* _access_token if that is set and now < _token_expires_at - 60, and     *)
(* None otherwise.                                                        *)
C7_FailedExchangeFallsBack ==
    [][/\ \A f \in Frames, resp \in TokenResponses :
            (f.op = "get_access_token" /\ exchange(f, resp))
            => last'.v =
                 IF resp.kind = "status_200"
                    /\ resp.access_token \notin {NONE, ""}
                 THEN resp.access_token
                 ELSE IF /\ _access_token \notin {NONE, ""}
                         /\ _token_expires_at \notin {<< >>, <<0>>}
                         /\ now < _token_expires_at[1] - 60
                 THEN _access_token
                 ELSE NONE
       /\ \A req \in Requests :
            (/\ req.present
             /\ req.access \notin {NONE, ""}
             /\ get_access_token(req))
            => last'.v = req.access]_vars

(* get_access_token, called with a refresh-token header, has just         *)
(* returned the process-wide token after its exchange failed.             *)
C7_Witness ==
    /\ last.at = "return"
    /\ last.op = "get_access_token"
    /\ last.refresh_token \in RefreshTokens
    /\ last.posted
    /\ last.v \in ExternalTokens
    /\ last.v = _access_token

(* C8, as stated: the legacy fetch sets _token_expires_at to              *)
(* t + expires_in - 60, and get_access_token without credentials returns  *)
(* the process-wide token at every time strictly before _token_expires_at *)
(* and None at or after it.                                               *)
C8_FallbackUntilExpiry ==
    [][/\ \A resp \in ExternalResponses :
            (/\ resp.kind = "status_200"
             /\ resp.access_token \notin {NONE, ""}
             /\ _get_token_from_external_api(resp))
            => (/\ _access_token' = resp.access_token
                /\ _token_expires_at' =
                      IF resp.expires_in = << >>
                      THEN <<now + 3600 - 60>>
                      ELSE <<now + resp.expires_in[1] - 60>>)
       /\ \A req \in Requests :
            (/\ ~req.present \/ (req.access \in {NONE, ""}
                                 /\ req.refresh \in {NONE, ""})
             /\ get_access_token(req))
            => last'.v = IF /\ _access_token \notin {NONE, ""}
                            /\ _token_expires_at \notin {<< >>, <<0>>}
                            /\ now < _token_expires_at[1]
                         THEN _access_token
                         ELSE NONE]_vars

(* C8, amended: the legacy fetch sets _token_expires_at to                *)
(* t + expires_in - 60, and get_access_token without credentials          *)
(* subtracts a further 60 seconds at the lookup: it returns the           *)
(* process-wide token at every time strictly before                       *)
(* _token_expires_at - 60 and None at or after it.                        *)
C8_FallbackUntilBufferedExpiry ==
    [][/\ \A resp \in ExternalResponses :
            (/\ resp.kind = "status_200"
             /\ resp.access_token \notin {NONE, ""}
             /\ _get_token_from_external_api(resp))
            => (/\ _access_token' = resp.access_token
                /\ _token_expires_at' =
                      IF resp.expires_in = << >>
                      THEN <<now + 3600 - 60>>
                      ELSE <<now + resp.expires_in[1] - 60>>)
       /\ \A req \in Requests :
            (/\ ~req.present \/ (req.access \in {NONE, ""}
                                 /\ req.refresh \in {NONE, ""})
             /\ get_access_token(req))
            => last'.v = IF /\ _access_token \notin {NONE, ""}
                            /\ _token_expires_at \notin {<< >>, <<0>>}
                            /\ now < _token_expires_at[1] - 60
                         THEN _access_token
                         ELSE NONE]_vars

(* get_access_token without credentials has just returned None although   *)
(* the process-wide token is set and now is before _token_expires_at.     *)
C8_Witness ==
    /\ last.at = "return"
    /\ last.op = "get_access_token"
    /\ last.refresh_token = NONE
    /\ last.v = NONE
    /\ _access_token \in ExternalTokens
    /\ _token_expires_at # << >>
    /\ now < _token_expires_at[1]

(* C9: a successful exchange at time t stores expires_at =                *)
(* t + expires_in - 60, with 3600 for a response without expires_in; a    *)
(* call is served from the cache only strictly before expires_at; so an   *)
(* entry whose response had expires_in <= 60 is never served.             *)
C9_BufferedExpiry ==
    [][/\ \A f \in Frames, resp \in TokenResponses :
            (/\ resp.kind = "status_200"
             /\ resp.access_token \notin {NONE, ""}
             /\ exchange(f, resp))
            => token_cache'[_get_cache_key_for_refresh_token(
                                f.refresh_token)].expires_at =
                 IF resp.expires_in = << >>
                 THEN now + 3600 - 60
                 ELSE now + resp.expires_in[1] - 60
       /\ \A refresh_token \in RefreshTokens :
            LET cache_key == _get_cache_key_for_refresh_token(refresh_token)
            IN  (/\ _generate_access_token_from_refresh(refresh_token)
                 /\ last'.at = "return")
                => (/\ cache_key \in DOMAIN token_cache
                    /\ now < token_cache[cache_key].expires_at
                    /\ written[cache_key].expires_in > 60
                    /\ last'.v = token_cache[cache_key].access_token)]_vars

(* A direct call is blocked in its POST although the cache holds under    *)
(* its key the entry of an exchange of its own refresh token: the         *)
(* response of that exchange had expires_in <= 60.                        *)
C9_Witness ==
    /\ last.at = "post"
    /\ last.op = "_generate_access_token_from_refresh"
    /\ LET cache_key == _get_cache_key_for_refresh_token(last.refresh_token)
       IN  /\ cache_key \in DOMAIN token_cache
           /\ written[cache_key].refresh_token = last.refresh_token
           /\ written[cache_key].expires_in <= 60

(* C10: an entry of token_cache stays under its key until                 *)
(* clear_cache_for_refresh_token is called for a refresh token with that  *)
(* key; it changes only when a successful exchange of a refresh token     *)
(* with that key replaces it; and the cache never holds more entries than *)
(* the refresh tokens have keys.                                          *)
C10_EntryStaysUntilCleared ==
    [][/\ \A k \in DOMAIN token_cache :
            /\ k \notin DOMAIN token_cache'
                 => \E r \in RefreshTokens :
                       /\ _get_cache_key_for_refresh_token(r) = k
                       /\ clear_cache_for_refresh_token(r)
            /\ (k \in DOMAIN token_cache' /\ token_cache'[k] # token_cache[k])
                 => \E f \in Frames, resp \in TokenResponses :
                       /\ _get_cache_key_for_refresh_token(f.refresh_token) = k
                       /\ resp.kind = "status_200"
                       /\ resp.access_token \notin {NONE, ""}
                       /\ exchange(f, resp)
       /\ DOMAIN token_cache' \subseteq
              {_get_cache_key_for_refresh_token(r) : r \in RefreshTokens}]_vars

(* refresh_token_if_needed, called without credentials, has just returned *)
(* and the cache still holds an expired entry.                            *)
C10_Witness ==
    /\ last.at = "return"
    /\ last.op = "refresh_token_if_needed"
    /\ last.refresh_token = NONE
    /\ \E k \in DOMAIN token_cache : token_cache[k].expires_at <= now

(* ---------------------------------------------------------------------- *)
(* Strings: p is the start of s, and p is the end of s.                   *)
StartsWith(s, p) == Len(p) <= Len(s) /\ SubSeq(s, 1, Len(p)) = p
EndsWith(s, p) ==
    Len(p) <= Len(s) /\ SubSeq(s, Len(s) - Len(p) + 1, Len(s)) = p

(* C14: for a query without 'omit_unselected_resource_names',             *)
(* preprocess_gaql returns the query followed by                          *)
(* ' omit_unselected_resource_names=true' when the query holds both       *)
(* 'PARAMETERS' and 'include_drafts', and otherwise the query followed by *)
(* ' PARAMETERS omit_unselected_resource_names=true', which then ends     *)
(* with that clause; the query is the start of the result in both cases.  *)
C14_DirectiveIsAppended ==
    (call.tool = "preprocess_gaql"
       /\ ~Contains(call.query, "omit_unselected_resource_names"))
    => /\ IF Contains(call.query, "PARAMETERS")
             /\ Contains(call.query, "include_drafts")
          THEN call.ret = call.query \o " omit_unselected_resource_names=true"
          ELSE /\ call.ret = call.query
                     \o " PARAMETERS omit_unselected_resource_names=true"
               /\ EndsWith(call.ret,
                     "PARAMETERS omit_unselected_resource_names=true")
       /\ StartsWith(call.ret, call.query)

(* preprocess_gaql has appended the bare directive to a query that holds  *)
(* PARAMETERS and include_drafts.                                         *)
C14_Witness ==
    /\ call.tool = "preprocess_gaql"
    /\ ~Contains(call.query, "omit_unselected_resource_names")
    /\ Contains(call.query, "PARAMETERS")
    /\ Contains(call.query, "include_drafts")
    /\ call.ret = call.query \o " omit_unselected_resource_names=true"
    /\ ~EndsWith(call.ret, "PARAMETERS omit_unselected_resource_names=true")

(* C15: preprocess_gaql applied to what preprocess_gaql returned returns  *)
(* it unchanged, and preprocess_gaql returns a query that already holds   *)
(* 'omit_unselected_resource_names' unchanged.                            *)
C15_PreprocessIsIdempotent ==
    call.tool = "preprocess_gaql"
    => /\ call.depth = 2 => call.ret = call.query
       /\ Contains(call.query, "omit_unselected_resource_names")
            => call.ret = call.query

(* preprocess_gaql has been applied a second time to a query that came    *)
(* without the directive.                                                 *)
C15_Witness ==
    /\ call.tool = "preprocess_gaql"
    /\ call.depth = 2
    /\ ~Contains(call.q, "omit_unselected_resource_names")
    /\ call.query # call.q
    /\ call.ret = call.query

(* ---------------------------------------------------------------------- *)
(* The name of an enum value is available: value.name gives it.           *)
NameAvailable(value) == value.name \notin {"AttributeError", "raises"}

(* C18: format_value returns the mapping form of a protocol-buffer        *)
(* message (the one proto.Message.to_dict gives); for an enum value it    *)
(* returns the symbolic name whenever the name is available, and the      *)
(* integer value only when the name lookup fails; it returns every other  *)
(* value unchanged.                                                       *)
C18_FormatValue ==
    call.tool = "format_value"
    => /\ (call.value.type = "Message" /\ call.value.to_dict = "dict")
            => /\ call.ret.type = "dict"
               /\ call.ret.of = call.value.of
       /\ call.value.type = "Enum"
            => /\ NameAvailable(call.value)
                    => /\ call.ret.type = "str"
                       /\ call.ret.s = call.value.name
               /\ call.ret.type = "int"
                    => /\ ~NameAvailable(call.value)
                       /\ call.ret.n = call.value.number
       /\ call.value.type \notin {"Message", "Enum"}
            => call.ret = call.value

(* format_value has returned the name of an enum value whose name is      *)
(* available.                                                             *)
C18_Witness ==
    /\ call.tool = "format_value"
    /\ call.value.type = "Enum"
    /\ NameAvailable(call.value)
    /\ call.ret.type = "str"
    /\ call.ret.s = "ENABLED"

(* ---------------------------------------------------------------------- *)
(* The rows of a response in the order they arrive, each with the field   *)
(* mask of its batch.                                                     *)
RECURSIVE ResponseRows(_)
ResponseRows(batches) ==
    IF batches = << >> THEN << >>
    ELSE [i \in 1 .. Len(batches[1].results) |->
             [paths |-> batches[1].paths, row |-> batches[1].results[i]]]
         \o ResponseRows(Tail(batches))

(* get_nested_attr fails on a path of the mask for the row. *)
FieldFails(r) ==
    \E i \in DOMAIN r.paths : PythonFieldPath(r.paths[i]) \notin DOMAIN r.row

(* C16: when execute_gaql returns, it returns one mapping per row of the  *)
(* response, in the order of the rows across the batches, and the keys of *)
(* each mapping are exactly the field paths of the mask of the row's      *)
(* batch, as they are written in the mask.                                *)
C16_OneMappingPerRow ==
    (call.tool = "execute_gaql" /\ call.ret # << >>)
    => LET output == call.ret[1]
           rows == ResponseRows(call.answer[1].batches)
       IN  /\ Len(output) = Len(rows)
           /\ \A k \in 1 .. Len(rows) :
                 /\ DOMAIN output[k] = Range(rows[k].paths)
                 /\ output[k]["campaign.id"].n = rows[k].row["campaign.id"].n

(* execute_gaql has returned the rows of two batches with different masks, *)
(* one of them with the path 'ad_group.type'.                             *)
C16_Witness ==
    /\ call.tool = "execute_gaql"
    /\ call.ret # << >>
    /\ Len(call.answer[1].batches) = 2
    /\ call.answer[1].batches[1].paths # call.answer[1].batches[2].paths
    /\ Len(call.ret[1]) = 3
    /\ \E k \in 1 .. 3 : "ad_group.type" \in DOMAIN call.ret[1][k]
    /\ call.ret[1][1]["campaign.id"].n # call.ret[1][3]["campaign.id"].n

(* C17: when a field path of a row of the response cannot be resolved,    *)
(* execute_gaql raises and returns nothing, whatever rows and batches     *)
(* came before, and it has sent the query once.                           *)
C17_FieldFailureIsFatal ==
    (/\ call.tool = "execute_gaql"
     /\ call.answer # << >>
     /\ call.answer[1].kind = "batches"
     /\ \E k \in DOMAIN ResponseRows(call.answer[1].batches) :
           FieldFails(ResponseRows(call.answer[1].batches)[k]))
    => /\ call.raised # << >>
       /\ call.ret = << >>
       /\ Len(call.requests) = 1

(* execute_gaql has raised on a row of the second batch after a first     *)
(* batch whose rows all resolved.                                         *)
C17_Witness ==
    /\ call.tool = "execute_gaql"
    /\ call.answer # << >>
    /\ call.answer[1].kind = "batches"
    /\ Len(call.answer[1].batches) = 2
    /\ Len(call.answer[1].batches[1].results) >= 1
    /\ \A k \in DOMAIN ResponseRows(<<call.answer[1].batches[1]>>) :
          ~FieldFails(ResponseRows(<<call.answer[1].batches[1]>>)[k])
    /\ \E k \in DOMAIN ResponseRows(<<call.answer[1].batches[2]>>) :
          FieldFails(ResponseRows(<<call.answer[1].batches[2]>>)[k])
    /\ call.raised # << >>
    /\ call.ret = << >>

(* The sequences of a sequence, one after another. *)
RECURSIVE Concat(_)
Concat(seqs) == IF seqs = << >> THEN << >> ELSE seqs[1] \o Concat(Tail(seqs))

(* C19: when the Ads API answers execute_gaql with a failure of one or    *)
(* more errors, execute_gaql raises a RuntimeError whose message is the   *)
(* blocks of the errors, in the order of the errors, joined by newlines;  *)
(* the block of an error is its line 'Error: <message>' followed by its   *)
(* Location, Error Code and Trigger lines, where it has them.             *)
C19_ErrorsInOrder ==
    (/\ call.tool = "execute_gaql"
     /\ call.answer # << >>
     /\ call.answer[1].kind = "GoogleAdsException"
     /\ Len(call.answer[1].errors) >= 1)
    => LET errors == call.answer[1].errors
           blocks == [i \in DOMAIN errors |-> ErrorBlock(errors[i])]
       IN  /\ call.ret = << >>
           /\ call.raised # << >>
           /\ call.raised[1].type = "RuntimeError"
           /\ call.raised[1].message = JoinLines(Concat(blocks))
           /\ \A i \in DOMAIN errors :
                 blocks[i][1] = "Error: " \o errors[i].message

(* execute_gaql has raised the RuntimeError of a failure with two errors, *)
(* the first with a trigger and the second with a location.               *)
C19_Witness ==
    /\ call.tool = "execute_gaql"
    /\ call.answer # << >>
    /\ call.answer[1].kind = "GoogleAdsException"
    /\ Len(call.answer[1].errors) = 2
    /\ call.answer[1].errors[1].trigger = <<"campaign.idd">>
    /\ call.answer[1].errors[1].message # call.answer[1].errors[2].message
    /\ call.answer[1].errors[2].location # << >>
    /\ call.raised # << >>
    /\ call.raised[1].type = "RuntimeError"
    /\ Contains(call.raised[1].message, "\n")

(* ---------------------------------------------------------------------- *)
(* The tools that query: they authenticate by lines 142-149 and 212-219.  *)
QueryTools == {"execute_gaql", "list_accessible_accounts"}

MissingHeader ==
    Raise("Exception", "Missing X-OAuth-Refresh-Token header for authentication")

(* C11, as it is stated: a request of a query tool that carries an        *)
(* X-OAuth-Access-Token header and no refresh-token header is not         *)
(* rejected for its missing refresh token, and the client it gets         *)
(* authenticates with the token of the header.                            *)
C11_AccessHeaderAuthenticates ==
    (/\ call.tool \in QueryTools
     /\ Truthy(call.access)
     /\ ~Truthy(call.refresh))
    => /\ call.raised # MissingHeader
       /\ call.client # << >> => call.client[1].token = call.access

(* C11, amended: a query tool takes its bearer token from the             *)
(* refresh-token header alone.  Without that header the request is        *)
(* rejected with the missing-header exception, whatever access-token      *)
(* header it carries and whatever process-wide token is held; with it,    *)
(* the client the tool gets authenticates with the token the cache holds  *)
(* for the refresh token after the call (found there or exchanged), never *)
(* with the access-token header or the process-wide token.                *)
C11_RefreshHeaderOnly ==
    call.tool \in QueryTools
    => /\ ~Truthy(call.refresh)
            => /\ call.raised = MissingHeader
               /\ call.client = << >>
       /\ call.client # << >>
            => /\ Truthy(call.refresh)
               /\ call.client[1].method = "argument"
               /\ call.client[1].token = call.access_token
               /\ call.client[1].token = CachedToken(token_cache, call.refresh)
               /\ call.client[1].token \notin HeaderTokens \cup ExternalTokens

(* A query tool has rejected a request that carries an access-token       *)
(* header and no refresh-token header while a process-wide token is held. *)
C11_Witness ==
    /\ call.tool \in QueryTools
    /\ Truthy(call.access)
    /\ ~Truthy(call.refresh)
    /\ FallbackToken # NONE
    /\ call.raised = MissingHeader

(* C12: a query tool that finds no refresh-token header raises a plain    *)
(* Exception with the message 'Missing X-OAuth-Refresh-Token header for   *)
(* authentication', and one whose exchange gives no token raises a plain  *)
(* Exception too; in both cases get_ads_client is not called, no client   *)
(* is built and no request goes to the Ads API.                           *)
C12_NoTokenNoClient ==
    call.tool \in QueryTools
    => /\ ~Truthy(call.refresh) => call.raised = MissingHeader
       /\ (~Truthy(call.refresh) \/ ~Truthy(call.access_token))
            => /\ call.raised # << >>
               /\ call.raised[1].type = "Exception"
               /\ call.auth = << >>
               /\ call.client = << >>
               /\ call.requests = << >>
               /\ call.ret = << >>

(* A query tool has raised because the exchange of its refresh token gave *)
(* no token.                                                              *)
C12_Witness ==
    /\ call.tool \in QueryTools
    /\ Truthy(call.refresh)
    /\ ~Truthy(call.access_token)
    /\ call.raised =
         Raise("Exception", "Failed to generate access token from refresh token")
    /\ call.requests = << >>

(* C13: a mutation tool called without login_customer_id sends its        *)
(* request on a client whose login_customer_id no earlier invocation has  *)
(* set: it is the one the client was built with, none.                    *)
C13_LoginCustomerIdIsOwn ==
    (/\ call.tool = "create_campaign_budget"
     /\ ~Truthy(call.login_customer_id)
     /\ call.requests # << >>)
    => call.requests[1].login_customer_id = NONE

(* C20: with the credentials file there, get_ads_client returns a client  *)
(* that authenticates with the access_token argument if it is non-empty;  *)
(* else with the token of oauth_client.get_access_token() if that is      *)
(* non-empty; else with the FastMCP token if there is one; else the       *)
(* process-wide client loaded from the YAML file.                         *)
C20_FirstMethodThatApplies ==
    (call.tool # "none" /\ call.tool \notin {"preprocess_gaql", "format_value"}
       /\ call.auth # << >> /\ call.auth[1].file)
    => LET auth == call.auth[1]
       IN  /\ call.client # << >>
           /\ IF Truthy(auth.argument)
              THEN /\ call.client[1].method = "argument"
                   /\ call.client[1].token = auth.argument
                   /\ ~call.client[1].shared
              ELSE IF Truthy(auth.dynamic)
              THEN /\ call.client[1].method = "dynamic"
                   /\ call.client[1].token = auth.dynamic
                   /\ ~call.client[1].shared
              ELSE IF Truthy(auth.fastmcp)
              THEN /\ call.client[1].method = "fastmcp"
                   /\ call.client[1].token = auth.fastmcp
                   /\ ~call.client[1].shared
              ELSE /\ call.client[1].method = "yaml"
                   /\ call.client[1].shared
                   /\ _ADS_CLIENT = call.client

(* get_ads_client, called without an argument, has returned a client with *)
(* the token of oauth_client.get_access_token() while FastMCP held a      *)
(* token too.                                                             *)
C20_Witness ==
    /\ call.tool = "create_campaign_budget"
    /\ call.auth # << >>
    /\ call.auth[1].file
    /\ ~Truthy(call.auth[1].argument)
    /\ Truthy(call.auth[1].dynamic)
    /\ Truthy(call.auth[1].fastmcp)
    /\ call.client # << >>
    /\ call.client[1].method = "dynamic"

(* ---------------------------------------------------------------------- *)
(* The tools that call get_ads_client. *)
ClientTools ==
    {"execute_gaql", "list_accessible_accounts", "create_campaign_budget"}

(* C21: get_ads_client raises FileNotFoundError exactly when the          *)
(* credentials file is not there, whatever tokens it is given or could    *)
(* get: it raises it without the file, and with the file it returns a     *)
(* client.                                                                *)
C21_FileNotFoundIffNoFile ==
    (call.tool \in ClientTools /\ call.auth # << >>)
    => /\ ~call.auth[1].file
            => /\ call.raised # << >>
               /\ call.raised[1].type = "FileNotFoundError"
               /\ call.client = << >>
       /\ call.auth[1].file
            => /\ call.client # << >>
               /\ (call.raised # << >>
                     => call.raised[1].type # "FileNotFoundError")

(* get_ads_client has raised FileNotFoundError although it was given an   *)
(* access token and FastMCP held one too.                                 *)
C21_Witness ==
    /\ call.tool \in ClientTools
    /\ call.auth # << >>
    /\ ~call.auth[1].file
    /\ Truthy(call.auth[1].argument)
    /\ Truthy(call.auth[1].fastmcp)
    /\ call.raised # << >>
    /\ call.raised[1].type = "FileNotFoundError"

(* ---------------------------------------------------------------------- *)
(* The number of places of s at which m starts. *)
Occurrences(s, m) ==
    Cardinality({i \in 1 .. (Len(s) - Len(m) + 1) :
                    SubSeq(s, i, i + Len(m) - 1) = m})

(* C27: preprocess_gaql on a query with at most one PARAMETERS clause     *)
(* returns a query with at most one PARAMETERS clause.                    *)
C27_OneParametersClause ==
    (call.tool = "preprocess_gaql"
       /\ Occurrences(call.query, "PARAMETERS") <= 1)
    => Occurrences(call.ret, "PARAMETERS") <= 1

(* ---------------------------------------------------------------------- *)
(* C29: clear_cache_for_refresh_token(R) removes the entry under the key  *)
(* of R and nothing else: the entries under other keys, _access_token and *)
(* _token_expires_at stay as they are, and without an entry under the key *)
(* nothing changes.  The cache it leaves has no token for R, and a        *)
(* _generate_access_token_from_refresh(R) that comes before anything is   *)
(* stored under the key again goes to the exchange.                       *)
C29_ClearRemovesItsEntryOnly ==
    [][\A r \in RefreshTokens :
         LET k == _get_cache_key_for_refresh_token(r)
         IN  /\ clear_cache_for_refresh_token(r)
                  => /\ DOMAIN token_cache' = DOMAIN token_cache \ {k}
                     /\ \A j \in DOMAIN token_cache' :
                           token_cache'[j] = token_cache[j]
                     /\ k \notin DOMAIN token_cache
                           => token_cache' = token_cache
                     /\ _access_token' = _access_token
                     /\ _token_expires_at' = _token_expires_at
                     /\ CachedToken(token_cache', r) = NONE
             /\ (k \notin DOMAIN written
                   /\ _generate_access_token_from_refresh(r))
                  => /\ last'.at = "post"
                     /\ last'.refresh_token = r
                     /\ BagIn(Frame("_generate_access_token_from_refresh", r),
                              inflight')]_vars

(* A successful exchange has stored an entry that is no longer there,     *)
(* while an entry under another key is still held: the entry was cleared. *)
C29_Witness ==
    /\ last.at = "return"
    /\ last.op = "_generate_access_token_from_refresh"
    /\ last.posted
    /\ Truthy(last.v)
    /\ _get_cache_key_for_refresh_token(last.refresh_token)
          \notin DOMAIN token_cache
    /\ token_cache # EmptyDict

ValidMatchType(kw) == upper(kw.match_type) \in {"EXACT", "PHRASE", "BROAD"}

C28_KeywordsAllOrNothing ==
    call.tool = "create_keywords"
    => LET kws == call.keywords
           bad == {i \in 1 .. Len(kws) : ~ValidMatchType(kws[i])}
       IN  IF bad # {}
           THEN /\ call.requests = << >>
                /\ call.raised # << >>
                /\ call.ret = << >>
                /\ call.client # << >>
                     => LET i == CHOOSE j \in bad : \A k \in bad : j <= k
                        IN  call.raised = Raise("ToolError",
                                "Invalid match_type: " \o kws[i].match_type
                                    \o ". Use EXACT, PHRASE, or BROAD.")
           ELSE call.client # << >>
                => /\ Len(call.requests) = 1
                   /\ call.requests[1].method = "mutate_ad_group_criteria"
                   /\ LET ops == call.requests[1].operations
                      IN  /\ Len(ops) = Len(kws)
                          /\ \A i \in 1 .. Len(kws) :
                                /\ ops[i].create.keyword.text = kws[i].text
                                /\ ops[i].create.keyword.match_type
                                      = upper(kws[i].match_type)
                                /\ ops[i].create.ad_group
                                      = call.ad_group_resource_name

(* A valid keyword precedes one with an invalid match_type, the client is *)
(* there, and the call has raised.                                        *)
C28_Witness ==
    /\ call.tool = "create_keywords"
    /\ call.client # << >>
    /\ Len(call.keywords) = 2
    /\ ValidMatchType(call.keywords[1])
    /\ ~ValidMatchType(call.keywords[2])
    /\ call.raised # << >>
    /\ call.requests = << >>

(* ---------------------------------------------------------------------- *)
(* The file a view name stands for, when the name is given. *)
ViewFile(view) ==
    realpath(join(MODULE_DIR \o "/context/views", view \o ".yaml"))

(* The path lies in the directory or below it. *)
Inside(path, directory) ==
    LET p == Normalised(<< >>, Split(path))
        d == Normalised(<< >>, Split(directory))
    IN  Len(d) < Len(p) /\ SubSeq(p, 1, Len(d)) = d

(* C22: get_reporting_view_doc with the name of a view whose YAML file    *)
(* does not exist raises nothing and returns the string 'No view resource *)
(* with that name was found.'.                                            *)
C22_MissingViewReturnsText ==
    (/\ call.tool = "get_reporting_view_doc"
     /\ Truthy(call.view)
     /\ Inside(ViewFile(call.view), MODULE_DIR \o "/context/views")
     /\ ViewFile(call.view) \notin call.files)
    => /\ call.raised = << >>
       /\ call.ret = <<"No view resource with that name was found.">>

(* C26: _get_view_doc_content opens a file only inside context/views; a   *)
(* name that resolves outside of it, a sibling directory whose name       *)
(* starts with 'views' included, yields 'Invalid view name.' and opens    *)
(* nothing.                                                               *)
C26_OpensOnlyInsideViews ==
    (call.tool = "get_reporting_view_doc" /\ Truthy(call.view))
    => /\ \A i \in 1 .. Len(call.opened) :
             Inside(call.opened[i], MODULE_DIR \o "/context/views")
       /\ ~Inside(ViewFile(call.view), MODULE_DIR \o "/context/views")
            => /\ call.opened = << >>
               /\ call.raised = << >>
               /\ call.ret = <<"Invalid view name.">>

(* ---------------------------------------------------------------------- *)
(* The calls of main() by name. *)
CallsOf(names) == SelectSeq(server.calls, LAMBDA c : c.name \in names)

(* C23: every run of main() calls update_views_yaml once, get_ads_client  *)
(* once and then starts the server once through mcp_server.run, with the  *)
(* transport 'streamable-http' when USE_GOOGLE_OAUTH_ACCESS_TOKEN is set. *)
C23_MainCallsEachOnce ==
    server.pc = "serving"
    => /\ Len(CallsOf({"update_views_yaml"})) = 1
       /\ Len(CallsOf({"api.get_ads_client"})) = 1
       /\ Len(CallsOf({"mcp_server.run"})) = 1
       /\ server.calls[Len(server.calls)].name = "mcp_server.run"
       /\ server.environ.USE_GOOGLE_OAUTH_ACCESS_TOKEN # << >>
            => CallsOf({"mcp_server.run"})[1].transport
                  = <<"streamable-http">>

(* The fields of the view that task i fetched, and the details it gives   *)
(* to a field: metrics over segments over attributes.                     *)
FieldsOfTask(i) ==
    LET data == server.tasks[i].result[1]
    IN  DOMAIN data.attributes \cup DOMAIN data.segments
            \cup DOMAIN data.metrics

DetailsOfTask(i, field) ==
    LET data == server.tasks[i].result[1]
    IN  IF field \in DOMAIN data.metrics THEN data.metrics[field]
        ELSE IF field \in DOMAIN data.segments THEN data.segments[field]
        ELSE data.attributes[field]

(* C24: the mapping written to fields.yaml does not depend on the order   *)
(* in which the fetches complete: it has the fields of all the views, and *)
(* a field that several views define has the details of the view that     *)
(* comes last in views.yaml.                                              *)
C24_FieldsInViewsOrder ==
    "fields.yaml" \in server.wrote
    => LET tasks == 1 .. Len(server.tasks)
           all_fields == disk.fields[1]
       IN  /\ DOMAIN all_fields = UNION {FieldsOfTask(i) : i \in tasks}
           /\ \A field \in DOMAIN all_fields :
                 LET of == {i \in tasks : field \in FieldsOfTask(i)}
                     latest == CHOOSE i \in of : \A j \in of : j <= i
                 IN  all_fields[field] = DetailsOfTask(latest, field)

(* fields.yaml has been written after the second view was fetched before  *)
(* the first, and both define campaign.id, with different details.        *)
C24_Witness ==
    /\ "fields.yaml" \in server.wrote
    /\ server.order = <<2, 1>>
    /\ "campaign.id" \in FieldsOfTask(1) \cap FieldsOfTask(2)
    /\ DetailsOfTask(1, "campaign.id") # DetailsOfTask(2, "campaign.id")
    /\ disk.fields[1]["campaign.id"] = DetailsOfTask(2, "campaign.id")

(* .api-version holds the current version. *)
HoldsVersion(d) == d.version # << >> /\ strip(d.version[1]) = "v22"

====
